---- MODULE Spec2Model ----
(***************************************************************************)
(* The MoQ source of the OBS plugin (moq-source.cpp): the connection       *)
(* life cycle (update / reconnect / disconnect / destroy on host threads,  *)
(* session-status, catalog and frame callbacks on transport threads) and   *)
(* the frame decode pipeline.  Every lock..unlock section of the code is   *)
(* one atomic step; a call into the transport library that happens outside *)
(* the lock is a step of its own.                                          *)
(***************************************************************************)
EXTENDS Integers, Sequences, FiniteSets, TLC

\* ------------------------------------------------------------------ bounds
MaxGen == 2          \* reconnect attempts (generation values 0..MaxGen)
MaxStatus == 2       \* session status callbacks the transport invokes
MaxCatalogs == 1     \* catalog callbacks the transport invokes
MaxFrames == 1       \* frame callbacks the transport invokes
MaxConfigs == 2      \* catalog deliveries to one connection (decode pipeline)
MaxUnits == 7        \* frame units delivered to one connection (decode pipeline)
ReconfCatalogs == 2  \* catalog callbacks across a reconnect (reconfiguration)
ReconfFrames == 2    \* frame callbacks across a reconnect (reconfiguration)
HangOps == 2         \* host calls after create (hang source)
HangStatus == 2      \* session status callbacks (hang source)
HangCatalogs == 1    \* catalog callbacks (hang source)
HangFrames == 2      \* frame callbacks, video and audio (hang source)

\* --------------------------------------------------------------- constants
INVALID == -1                   \* "all negative = invalid" handle value
NULL == 0                       \* null pointer (codec_ctx, sws_ctx, frame_buffer)
AV_PIX_FMT_NONE == -1           \* no pixel format
ErrorThreshold == 5             \* consecutive decode errors that force a flush
MaxDimension == 16384           \* sanity ceiling of a decoded dimension
BytesPerPixel == 4              \* RGBA

NullStr == "<null>"             \* a char* that is NULL (bzalloc'ed struct)
Hosts == {1, 2}                 \* host threads calling update / destroy

\* settings the host hands to moq_source_update (url, broadcast)
Settings == {<<"A", "x">>, <<"B", "y">>, <<"", "x">>}

VARIABLES
    ctx,        \* struct moq_source
    hnd,        \* the transport's handle table: every handle it has returned
    host,       \* host threads: position in update / reconnect / destroy
    st,         \* transport thread running on_session_status
    ct,         \* transport thread running on_catalog
    ft,         \* transport thread running on_video_frame
    dec,        \* a keyframe unit was read since the decoder was opened or flushed on errors
    gh,         \* history of the decoder: see gh0
    out,        \* what the renderer shows: last obs_source_output_video call
    calls,      \* collaborator calls made by the latest step, in order
    created,    \* moq_source_create has returned
    freed,      \* moq_source_destroy has freed the struct
    uaf,        \* a callback touched the struct after it was freed
    nStatus,    \* session status callbacks invoked so far
    nCat,       \* catalog callbacks invoked so far
    nFrames     \* frame callbacks invoked so far

vars == <<ctx, hnd, host, st, ct, ft, dec, gh, out, calls, created, freed, uaf,
          nStatus, nCat, nFrames>>

\* errs: the units in a row that the decoder has failed with an error other
\* than EAGAIN, no picture decoded between them, since the decoder was
\* opened.  codec, sws, buf: the codec contexts, conversion contexts and
\* output buffers allocated and not freed.  cfg: the video configuration
\* (codec string, coded width, coded height) the installed decoder was opened
\* for, <<>> if none.  keep: that configuration was delivered again after the
\* pipeline had accepted a keyframe, and the decoder has not been flushed on
\* errors since.
gh0 == [errs |-> 0, codec |-> 0, sws |-> 0, buf |-> 0, cfg |-> <<>>, keep |-> FALSE]

\* ------------------------------------------------------ transport handles
\* A handle is an index into hnd; the entry remembers what it is, the
\* reconnect attempt (generation) it descends from, its parent handle and
\* how often it has been closed.
Valid(h) == h >= 0

NewHandle(kind, gen, parent, tag) ==
    [kind |-> kind, gen |-> gen, parent |-> parent, tag |-> tag,
     closes |-> 0, status |-> "pending"]

Alloc(h, kind, gen, parent, tag) == Append(h, NewHandle(kind, gen, parent, tag))

IsOpen(h, id) == id \in 1..Len(h) /\ h[id].closes = 0

\* moq_*_close(id): the handle is closed (a second close is remembered);
\* the transport makes no further callback for it
Close(h, id) ==
    IF id \in 1..Len(h)
    THEN [h EXCEPT ![id].closes = IF @ < 2 THEN @ + 1 ELSE @,
                   ![id].status = "closed"]
    ELSE h

RECURSIVE CloseAll(_, _)
CloseAll(h, ids) ==
    IF ids = <<>> THEN h ELSE CloseAll(Close(h, Head(ids)), Tail(ids))

GenOf(h, id) == IF id \in 1..Len(h) THEN h[id].gen ELSE INVALID

\* ------------------------------------------------------ struct moq_source
ctx0 ==
    [url |-> NullStr, broadcast |-> NullStr,
     shutting_down |-> FALSE,
     generation |-> 0, reconnect_in_progress |-> FALSE,
     origin |-> INVALID, session |-> INVALID, consume |-> INVALID,
     catalog_handle |-> INVALID, video_track |-> INVALID,
     codec_ctx |-> NULL, current_codec_id |-> "NONE",
     current_pix_fmt |-> AV_PIX_FMT_NONE,
     sws_ctx |-> <<>>, got_keyframe |-> FALSE,
     frames_waiting_for_keyframe |-> 0, consecutive_decode_errors |-> 0,
     frame_buffer |-> NULL,
     frame_width |-> 0, frame_height |-> 0, frame_linesize |-> 0]

\* the five registry handles, child first
Registry(c) == <<c.video_track, c.catalog_handle, c.consume, c.session, c.origin>>

\* the decode pipeline fields
Pipeline(c) ==
    <<c.codec_ctx, c.current_pix_fmt, c.sws_ctx, c.got_keyframe,
      c.frames_waiting_for_keyframe, c.consecutive_decode_errors,
      c.frame_buffer, c.frame_width, c.frame_height, c.frame_linesize>>

moq_source_destroy_decoder_locked(c) ==
    [c EXCEPT !.sws_ctx = <<>>, !.codec_ctx = NULL, !.frame_buffer = NULL,
              !.current_codec_id = "NONE",
              !.current_pix_fmt = AV_PIX_FMT_NONE]

\* a teardown that forgets the output buffer
FreeDecoder_nobuf(g, c) ==
    [g EXCEPT !.errs = 0, !.cfg = <<>>, !.keep = FALSE,
              !.sws = @ - (IF c.sws_ctx # <<>> THEN 1 ELSE 0),
              !.codec = @ - (IF c.codec_ctx # NULL THEN 1 ELSE 0)]

\* the frees of the decoder state in c: sws_freeContext, avcodec_free_context
\* and bfree, each if its pointer is non-null
FreeDecoder(g, c) ==
    [g EXCEPT !.errs = 0, !.cfg = <<>>, !.keep = FALSE,
              !.sws = @ - (IF c.sws_ctx # <<>> THEN 1 ELSE 0),
              !.codec = @ - (IF c.codec_ctx # NULL THEN 1 ELSE 0),
              !.buf = @ - (IF c.frame_buffer # NULL THEN 1 ELSE 0)]

\* the close calls moq_source_disconnect_locked makes, in its order
DisconnectCloses(c) == SelectSeq(Registry(c), Valid)

moq_source_disconnect_locked(c) ==
    LET d == moq_source_destroy_decoder_locked(
                 [c EXCEPT !.video_track = INVALID, !.catalog_handle = INVALID,
                           !.consume = INVALID, !.session = INVALID,
                           !.origin = INVALID])
    IN  [d EXCEPT !.got_keyframe = FALSE,
                  !.frames_waiting_for_keyframe = 0,
                  !.consecutive_decode_errors = 0]

\* one entry of calls per close call
RECURSIVE CloseCalls(_)
CloseCalls(ids) ==
    IF ids = <<>> THEN <<>> ELSE <<<<"close", Head(ids)>>>> \o CloseCalls(Tail(ids))

\* moq_source_blank_video: obs_source_output_video(ctx->source, NULL)
Blank == [kind |-> "blank", track |-> INVALID, width |-> 0, height |-> 0, size |-> 0]
NoOutput == [kind |-> "none", track |-> INVALID, width |-> 0, height |-> 0, size |-> 0]

\* ------------------------------------------------------------ host threads
host0 == [pc |-> "idle", new_gen |-> 0, url_copy |-> NullStr,
          new_origin |-> INVALID, new_session |-> INVALID]

\* no call into the source is running on host thread h ("created": create
\* has just returned and the host has made no other call yet)
HostIdle(h) == host[h].pc \in {"idle", "created"}

\* where a host call returns to
Return == IF created THEN "idle" ELSE "created"

\* a reconnect that has been decided or begun and has not yet bumped the generation
PendingReconnects == Cardinality({h \in Hosts : host[h].pc = "reconnect"})

\* a comparison that finds every string changed
StrChanged_always(old, new) == TRUE

StrChanged(old, new) ==
    \/ old = NullStr /\ new # NullStr /\ new # ""
    \/ old # NullStr /\ new = NullStr
    \/ old # NullStr /\ new # NullStr /\ old # new

SettingsChanged(c, url, broadcast) ==
    StrChanged(c.url, url) \/ StrChanged(c.broadcast, broadcast)

SettingsValid(c) ==
    c.url # NullStr /\ c.broadcast # NullStr /\ c.url # "" /\ c.broadcast # ""

CallbackVars == <<st, ct, ft, nStatus, nCat, nFrames>>

\* obs_data_get_string(settings, "url") and (settings, "broadcast")
GetSettings == <<<<"get_string", 1>>, <<"get_string", 2>>>>

\* moq_source_update, its locked section: compare, store, decide
UpdateBody(h, url, broadcast) ==
    LET changed == SettingsChanged(ctx, url, broadcast)
        c1 == [ctx EXCEPT !.url = url, !.broadcast = broadcast]
        valid == SettingsValid(c1)
    IN  /\ (changed /\ valid) => ctx.generation + PendingReconnects < MaxGen
        /\ ctx' = c1
        /\ host' = [host EXCEPT ![h].pc =
                        IF changed /\ valid THEN "reconnect"
                        ELSE IF changed THEN "disconnect" ELSE Return]
        /\ created' = (created \/ ~changed)
        /\ calls' = GetSettings
        /\ UNCHANGED <<hnd, dec, gh, out, freed, uaf, CallbackVars>>

\* moq_source_create: the struct is initialised, then update is called with
\* the stored settings; create returns when that update returns
moq_source_create(h) ==
    /\ host[h].pc = "create"
    /\ \E s \in Settings : UpdateBody(h, s[1], s[2])

moq_source_update(h) ==
    /\ created
    /\ HostIdle(h)
    /\ ~ctx.shutting_down
    /\ \E s \in Settings : UpdateBody(h, s[1], s[2])

\* update, settings changed and invalid: locked disconnect
update_disconnect(h) ==
    /\ host[h].pc = "disconnect"
    /\ ctx' = moq_source_disconnect_locked(ctx)
    /\ hnd' = CloseAll(hnd, DisconnectCloses(ctx))
    /\ dec' = FALSE
    /\ gh' = FreeDecoder(gh, ctx)
    /\ calls' = CloseCalls(DisconnectCloses(ctx))
    /\ host' = [host EXCEPT ![h].pc = "dc_blank"]
    /\ UNCHANGED <<out, created, freed, uaf, CallbackVars>>

\* update, after the disconnect: blank the video and return
update_blank(h) ==
    /\ host[h].pc = "dc_blank"
    /\ out' = Blank
    /\ calls' = <<<<"output_video", NULL>>>>
    /\ host' = [host EXCEPT ![h].pc = Return]
    /\ created' = TRUE
    /\ UNCHANGED <<ctx, hnd, dec, gh, freed, uaf, CallbackVars>>

\* a reconnect without the in-progress guard
ReconnectGuard_off(c) == FALSE

\* the in-progress guard of moq_source_reconnect
ReconnectGuard(c) == c.reconnect_in_progress

\* an installation check that lets every attempt through
GenerationCurrent_any(c, gen) == TRUE

\* the generation check before a handle is installed
GenerationCurrent(c, gen) == c.generation = gen

\* a reconnect that skips a generation
NextGeneration_skip(c) == c.generation + 2

\* the generation of a new reconnect attempt
NextGeneration(c) == c.generation + 1

\* moq_source_reconnect, first locked section: guard, bump the generation,
\* disconnect, copy the url
reconnect_begin(h) ==
    /\ host[h].pc = "reconnect"
    /\ IF ReconnectGuard(ctx)
       THEN /\ host' = [host EXCEPT ![h].pc = Return]
            /\ created' = TRUE
            /\ calls' = <<>>
            /\ UNCHANGED <<ctx, hnd, dec, gh>>
       ELSE LET new_gen == NextGeneration(ctx)
                c1 == [ctx EXCEPT !.reconnect_in_progress = TRUE,
                                  !.generation = new_gen]
            IN  /\ ctx' = moq_source_disconnect_locked(c1)
                /\ hnd' = CloseAll(hnd, DisconnectCloses(c1))
                /\ dec' = FALSE
                /\ gh' = FreeDecoder(gh, ctx)
                /\ calls' = CloseCalls(DisconnectCloses(c1))
                /\ host' = [host EXCEPT ![h].pc = "rc_blank",
                                        ![h].new_gen = new_gen,
                                        ![h].url_copy = ctx.url]
                /\ UNCHANGED created
    /\ UNCHANGED <<out, freed, uaf, CallbackVars>>

\* a reconnect that clears its guard after the blank frame, without the lock
reconnect_blank_unlocked(h) ==
    /\ host[h].pc = "rc_blank"
    /\ out' = Blank
    /\ calls' = <<<<"output_video", NULL>>>>
    /\ host' = [host EXCEPT ![h].pc = "rc_open"]
    /\ ctx' = [ctx EXCEPT !.reconnect_in_progress = FALSE]
    /\ UNCHANGED <<hnd, dec, gh, created, freed, uaf, CallbackVars>>

\* moq_source_reconnect: blank the video, sleep 50 ms
reconnect_blank(h) ==
    /\ host[h].pc = "rc_blank"
    /\ out' = Blank
    /\ calls' = <<<<"output_video", NULL>>>>
    /\ host' = [host EXCEPT ![h].pc = "rc_open"]
    /\ UNCHANGED <<ctx, hnd, dec, gh, created, freed, uaf, CallbackVars>>

\* moq_source_reconnect: moq_origin_create and moq_session_connect, outside
\* the lock; on a failure the guard is cleared and reconnect returns
reconnect_open(h) ==
    /\ host[h].pc = "rc_open"
    /\ LET g == host[h].new_gen
           o == Len(hnd) + 1
           h1 == Alloc(hnd, "origin", g, INVALID, "")
           h2 == Alloc(h1, "session", g, o, host[h].url_copy)
       IN  \/ \* moq_origin_create fails
              /\ hnd' = hnd
              /\ calls' = <<<<"origin_create", INVALID>>>>
              /\ ctx' = [ctx EXCEPT !.reconnect_in_progress = FALSE]
              /\ host' = [host EXCEPT ![h] = [host0 EXCEPT !.pc = Return]]
              /\ created' = TRUE
           \/ \* moq_session_connect fails
              /\ hnd' = Close(h1, o)
              /\ calls' = <<<<"origin_create", o>>, <<"session_connect", INVALID>>,
                            <<"close", o>>>>
              /\ ctx' = [ctx EXCEPT !.reconnect_in_progress = FALSE]
              /\ host' = [host EXCEPT ![h] = [host0 EXCEPT !.pc = Return]]
              /\ created' = TRUE
           \/ /\ hnd' = h2
              /\ calls' = <<<<"origin_create", o>>, <<"session_connect", o + 1>>>>
              /\ host' = [host EXCEPT ![h].pc = "rc_install",
                                      ![h].new_origin = o,
                                      ![h].new_session = o + 1]
              /\ UNCHANGED <<ctx, created>>
    /\ UNCHANGED <<dec, gh, out, freed, uaf, CallbackVars>>

\* moq_source_reconnect, last locked section: install the new origin and
\* session if the generation is still the one of this attempt
reconnect_install(h) ==
    /\ host[h].pc = "rc_install"
    /\ IF ~GenerationCurrent(ctx, host[h].new_gen)
       THEN /\ ctx' = [ctx EXCEPT !.reconnect_in_progress = FALSE]
            /\ hnd' = CloseAll(hnd, <<host[h].new_session, host[h].new_origin>>)
            /\ calls' = CloseCalls(<<host[h].new_session, host[h].new_origin>>)
       ELSE /\ ctx' = [ctx EXCEPT !.origin = host[h].new_origin,
                                  !.session = host[h].new_session,
                                  !.reconnect_in_progress = FALSE]
            /\ calls' = <<>>
            /\ UNCHANGED hnd
    /\ host' = [host EXCEPT ![h] = [host0 EXCEPT !.pc = Return]]
    /\ created' = TRUE
    /\ UNCHANGED <<dec, gh, out, freed, uaf, CallbackVars>>

\* moq_source_destroy, locked section: set shutting_down, disconnect.  The
\* host destroys a source when no other call into it is running.
moq_source_destroy(h) ==
    /\ created
    /\ ~ctx.shutting_down
    /\ \A k \in Hosts : HostIdle(k)
    /\ LET c1 == [ctx EXCEPT !.shutting_down = TRUE]
       IN  /\ ctx' = moq_source_disconnect_locked(c1)
           /\ hnd' = CloseAll(hnd, DisconnectCloses(c1))
           /\ calls' = CloseCalls(DisconnectCloses(c1))
    /\ dec' = FALSE
    /\ gh' = FreeDecoder(gh, ctx)
    /\ host' = [host EXCEPT ![h].pc = "destroy_free"]
    /\ UNCHANGED <<out, created, freed, uaf, CallbackVars>>

\* moq_source_destroy: after the 100 ms sleep, free the strings, the mutex
\* and the struct
destroy_free(h) ==
    /\ host[h].pc = "destroy_free"
    /\ freed' = TRUE
    /\ calls' = <<>>
    /\ host' = [host EXCEPT ![h].pc = "gone"]
    /\ UNCHANGED <<ctx, hnd, dec, gh, out, created, uaf, CallbackVars>>

\* ------------------------------------------------- on_session_status thread
st0 == [pc |-> "idle", sess |-> INVALID, code |-> 0, gen |-> 0,
        origin |-> INVALID, bc |-> NullStr, consume |-> INVALID]

\* the atomic shutting_down flag, read before (and again after) locking
ShuttingDown(c) == c.shutting_down

HostVars == <<host, created, freed>>

\* The transport invokes on_session_status(ctx, code) for a session it still
\* holds open: 0 once when connected, an error code when the session fails
\* (before or after it connected).  The callback reads the flag (fast path).
session_status_invoke ==
    /\ st.pc = "idle"
    /\ nStatus < MaxStatus
    /\ nStatus' = nStatus + 1
    /\ \E s \in 1..Len(hnd) :
          /\ hnd[s].kind = "session"
          /\ IsOpen(hnd, s)
          /\ hnd[s].status \in {"pending", "connected"}
          /\ \E code \in (IF hnd[s].status = "pending" THEN {0, -1} ELSE {-1}) :
                /\ hnd' = [hnd EXCEPT ![s].status =
                               IF code = 0 THEN "connected" ELSE "failed"]
                /\ st' = IF ShuttingDown(ctx) THEN st0
                         ELSE [st0 EXCEPT !.pc = "lock", !.sess = s, !.code = code]
    /\ calls' = <<>>
    /\ uaf' = (uaf \/ freed)
    /\ UNCHANGED <<ctx, dec, gh, out, HostVars, ct, ft, nCat, nFrames>>

\* on_session_status, locked section: re-check, read the generation, then
\* either go on to moq_source_start_consume or close session and origin
session_status_locked ==
    /\ st.pc = "lock"
    /\ uaf' = (uaf \/ freed)
    /\ IF ShuttingDown(ctx) \/ ~Valid(ctx.session)
       THEN /\ st' = st0
            /\ calls' = <<>>
            /\ UNCHANGED <<ctx, hnd>>
       ELSE IF st.code = 0
       THEN /\ st' = [st EXCEPT !.pc = "sc_check", !.gen = ctx.generation]
            /\ calls' = <<>>
            /\ UNCHANGED <<ctx, hnd>>
       ELSE LET ids == SelectSeq(<<ctx.session, ctx.origin>>, Valid)
            IN  /\ ctx' = [ctx EXCEPT !.session = INVALID, !.origin = INVALID]
                /\ hnd' = CloseAll(hnd, ids)
                /\ calls' = CloseCalls(ids)
                /\ st' = [st EXCEPT !.pc = "blank"]
    /\ UNCHANGED <<dec, gh, out, HostVars, ct, ft, nStatus, nCat, nFrames>>

\* moq_source_blank_video at the end of a failed path
session_blank ==
    /\ st.pc = "blank"
    /\ uaf' = (uaf \/ freed)
    /\ out' = Blank
    /\ calls' = <<<<"output_video", NULL>>>>
    /\ st' = st0
    /\ UNCHANGED <<ctx, hnd, dec, gh, HostVars, ct, ft, nStatus, nCat, nFrames>>

\* moq_source_start_consume, first locked section: origin valid and
\* generation as expected, then copy origin and broadcast
start_consume_check ==
    /\ st.pc = "sc_check"
    /\ uaf' = (uaf \/ freed)
    /\ IF ~Valid(ctx.origin) \/ ~GenerationCurrent(ctx, st.gen)
       THEN st' = st0
       ELSE st' = [st EXCEPT !.pc = "sc_consume", !.origin = ctx.origin,
                             !.bc = ctx.broadcast]
    /\ calls' = <<>>
    /\ UNCHANGED <<ctx, hnd, dec, gh, out, HostVars, ct, ft, nStatus, nCat, nFrames>>

\* moq_source_start_consume: moq_origin_consume(origin, broadcast_copy),
\* outside the lock; it fails on an origin that has been closed meanwhile
start_consume_call ==
    /\ st.pc = "sc_consume"
    /\ \/ /\ IsOpen(hnd, st.origin)
          /\ hnd' = Alloc(hnd, "consume", GenOf(hnd, st.origin), st.origin, st.bc)
          /\ st' = [st EXCEPT !.pc = "sc_install", !.consume = Len(hnd) + 1]
          /\ calls' = <<<<"origin_consume", st.origin>>>>
       \/ /\ st' = [st EXCEPT !.pc = "sc_install", !.consume = INVALID]
          /\ calls' = <<<<"origin_consume", st.origin>>>>
          /\ UNCHANGED hnd
    /\ UNCHANGED <<ctx, dec, gh, out, HostVars, uaf, ct, ft, nStatus, nCat, nFrames>>

\* the cleanup of a failed consume or catalog subscribe, under the lock
ConsumeCleanupIds(c, gen, withConsume) ==
    IF GenerationCurrent(c, gen)
    THEN SelectSeq((IF withConsume THEN <<c.consume>> ELSE <<>>)
                   \o <<c.session, c.origin>>, Valid)
    ELSE <<>>

ConsumeCleanup(c, gen, withConsume) ==
    IF GenerationCurrent(c, gen)
    THEN [c EXCEPT !.consume = IF withConsume THEN INVALID ELSE @,
                   !.session = INVALID, !.origin = INVALID]
    ELSE c

\* moq_source_start_consume, locked section after moq_origin_consume: on
\* failure clean up, otherwise install the consumer under the same generation
start_consume_install ==
    /\ st.pc = "sc_install"
    /\ uaf' = (uaf \/ freed)
    /\ IF ~Valid(st.consume)
       THEN /\ ctx' = ConsumeCleanup(ctx, st.gen, FALSE)
            /\ hnd' = CloseAll(hnd, ConsumeCleanupIds(ctx, st.gen, FALSE))
            /\ calls' = CloseCalls(ConsumeCleanupIds(ctx, st.gen, FALSE))
            /\ st' = [st EXCEPT !.pc = "blank"]
       ELSE IF ~GenerationCurrent(ctx, st.gen)
       THEN /\ hnd' = Close(hnd, st.consume)
            /\ calls' = CloseCalls(<<st.consume>>)
            /\ st' = st0
            /\ UNCHANGED ctx
       ELSE /\ ctx' = [ctx EXCEPT !.consume = st.consume]
            /\ st' = [st EXCEPT !.pc = "sc_catalog"]
            /\ calls' = <<>>
            /\ UNCHANGED hnd
    /\ UNCHANGED <<dec, gh, out, HostVars, ct, ft, nStatus, nCat, nFrames>>

\* moq_source_start_consume: moq_consume_catalog(consume, on_catalog, ctx),
\* outside the lock; its result is kept in a local only.  On failure (as on
\* a consumer that has been closed meanwhile) the locked cleanup follows.
start_consume_catalog ==
    /\ st.pc = "sc_catalog"
    /\ \/ /\ IsOpen(hnd, st.consume)
          /\ hnd' = Alloc(hnd, "catalog_sub", GenOf(hnd, st.consume), st.consume, "")
          /\ calls' = <<<<"consume_catalog", st.consume>>>>
          /\ st' = st0
          /\ UNCHANGED <<ctx, uaf>>
       \/ /\ ctx' = ConsumeCleanup(ctx, st.gen, TRUE)
          /\ hnd' = CloseAll(hnd, ConsumeCleanupIds(ctx, st.gen, TRUE))
          /\ calls' = <<<<"consume_catalog", st.consume>>>>
                      \o CloseCalls(ConsumeCleanupIds(ctx, st.gen, TRUE))
          /\ st' = [st EXCEPT !.pc = "blank"]
          /\ uaf' = (uaf \/ freed)
    /\ UNCHANGED <<dec, gh, out, HostVars, ct, ft, nStatus, nCat, nFrames>>

\* ------------------------------------------------------------ video config
\* a codec string is a sequence of characters
Upper == <<"A", "B", "C", "D", "E", "F", "G", "H", "I", "J", "K", "L", "M",
           "N", "O", "P", "Q", "R", "S", "T", "U", "V", "W", "X", "Y", "Z">>
Lowers == <<"a", "b", "c", "d", "e", "f", "g", "h", "i", "j", "k", "l", "m",
            "n", "o", "p", "q", "r", "s", "t", "u", "v", "w", "x", "y", "z">>

ToLower(ch) ==
    IF \E i \in 1..Len(Upper) : Upper[i] = ch
    THEN Lowers[CHOOSE i \in 1..Len(Upper) : Upper[i] = ch]
    ELSE ch

\* len >= n && strncasecmp(codec, p, n) == 0, p of n lower-case characters
PrefixNoCase(codec, p) ==
    /\ Len(codec) >= Len(p)
    /\ \A i \in 1..Len(p) : ToLower(codec[i]) = p[i]

codec_string_to_id(codec) ==
    IF codec = <<>> THEN "NONE"
    ELSE IF \/ PrefixNoCase(codec, <<"h", "2", "6", "4">>)
            \/ PrefixNoCase(codec, <<"a", "v", "c", "1">>)
            \/ PrefixNoCase(codec, <<"a", "v", "c">>) THEN "H264"
    ELSE IF \/ PrefixNoCase(codec, <<"h", "e", "v", "c">>)
            \/ PrefixNoCase(codec, <<"h", "2", "6", "5">>)
            \/ PrefixNoCase(codec, <<"h", "e", "v", "1">>)
            \/ PrefixNoCase(codec, <<"h", "v", "c", "1">>) THEN "HEVC"
    ELSE IF \/ PrefixNoCase(codec, <<"v", "p", "9">>)
            \/ PrefixNoCase(codec, <<"v", "p", "0", "9">>) THEN "VP9"
    ELSE IF \/ PrefixNoCase(codec, <<"a", "v", "1">>)
            \/ PrefixNoCase(codec, <<"a", "v", "0", "1">>) THEN "AV1"
    ELSE IF PrefixNoCase(codec, <<"v", "p", "8">>) THEN "VP8"
    ELSE "NONE"

\* What one catalog delivery gives on_catalog: whether the video config can
\* be read, the codec string, the coded dimensions (0: absent), and whether
\* FFmpeg finds, allocates and opens the decoder.
Config(read_ok, codec, w, h, open_ok) ==
    [read_ok |-> read_ok, codec |-> codec, coded_width |-> w,
     coded_height |-> h, open_ok |-> open_ok,
     \* the dimensions avcodec_open2 parses from the description when the
     \* config carries none
     parsed_width |-> IF w = 0 THEN 640 ELSE w,
     parsed_height |-> IF h = 0 THEN 360 ELSE h]

\* what identifies the video configuration of a delivery
VideoConfig(cfg) == <<cfg.codec, cfg.coded_width, cfg.coded_height>>

ConfigWidth(cfg) ==
    IF cfg.coded_width > 0 THEN cfg.coded_width
    ELSE IF cfg.parsed_width > 0 THEN cfg.parsed_width ELSE 0

ConfigHeight(cfg) ==
    IF cfg.coded_height > 0 THEN cfg.coded_height
    ELSE IF cfg.parsed_height > 0 THEN cfg.parsed_height ELSE 0

Configs ==
    {Config(TRUE, <<"a", "v", "c", "1">>, 1280, 720, TRUE),
     Config(TRUE, <<"A", "V", "1">>, 0, 0, TRUE),
     Config(TRUE, <<"o", "p", "u", "s">>, 1280, 720, TRUE),
     Config(TRUE, <<"h", "e", "v", "1">>, 1280, 720, FALSE),
     Config(FALSE, <<>>, 0, 0, FALSE)}

\* moq_source_init_decoder succeeds: codec known, decoder found and opened
InitDecoderOk(cfg) == codec_string_to_id(cfg.codec) # "NONE" /\ cfg.open_ok

\* an installation that keeps the old output buffer
moq_source_init_decoder_keep(c, cfg, id) ==
    [c EXCEPT !.codec_ctx = id,
              !.current_codec_id = codec_string_to_id(cfg.codec),
              !.current_pix_fmt = AV_PIX_FMT_NONE,
              !.sws_ctx = <<>>,
              !.frame_width = ConfigWidth(cfg),
              !.frame_height = ConfigHeight(cfg),
              !.frame_linesize = ConfigWidth(cfg) * BytesPerPixel,
              !.got_keyframe = FALSE,
              !.frames_waiting_for_keyframe = 0,
              !.consecutive_decode_errors = 0]

\* moq_source_init_decoder, its locked section: the old decoder state is
\* freed and the new codec context (named after the catalog delivery that
\* configured it) installed
moq_source_init_decoder(c, cfg, id) ==
    [c EXCEPT !.codec_ctx = id,
              !.current_codec_id = codec_string_to_id(cfg.codec),
              !.current_pix_fmt = AV_PIX_FMT_NONE,
              !.sws_ctx = <<>>,
              !.frame_buffer = NULL,
              !.frame_width = ConfigWidth(cfg),
              !.frame_height = ConfigHeight(cfg),
              !.frame_linesize = ConfigWidth(cfg) * BytesPerPixel,
              !.got_keyframe = FALSE,
              !.frames_waiting_for_keyframe = 0,
              !.consecutive_decode_errors = 0]

\* ---------------------------------------------------------- on_catalog thread
ct0 == [pc |-> "idle", catalog |-> INVALID, gen |-> 0, track |-> INVALID]

\* an on_catalog that returns on shutdown or disconnect without closing
CatalogCloseIds_none(catalog) == <<>>

\* moq_consume_catalog_close(catalog) of a delivered catalog, if catalog >= 0
CatalogCloseIds(catalog) == SelectSeq(<<catalog>>, Valid)

\* The transport invokes on_catalog(ctx, catalog) for a catalog subscription
\* whose broadcast consumer it still holds open; catalog is a new handle, or
\* negative on an error.  The callback reads the flag (fast path).
CatalogInvoke(max) ==
    /\ ct.pc = "idle"
    /\ nCat < max
    /\ nCat' = nCat + 1
    /\ \E s \in 1..Len(hnd) :
          /\ hnd[s].kind = "catalog_sub"
          /\ IsOpen(hnd, hnd[s].parent)
          /\ \E ok \in BOOLEAN :
                LET id == IF ok THEN Len(hnd) + 1 ELSE INVALID
                    h1 == IF ok THEN Alloc(hnd, "catalog", hnd[s].gen,
                                           hnd[s].parent, "")
                          ELSE hnd
                IN  IF ShuttingDown(ctx)
                    THEN /\ hnd' = CloseAll(h1, CatalogCloseIds(id))
                         /\ calls' = CloseCalls(CatalogCloseIds(id))
                         /\ ct' = ct0
                    ELSE /\ hnd' = h1
                         /\ calls' = <<>>
                         /\ ct' = [ct0 EXCEPT !.pc = "lock", !.catalog = id]
    /\ uaf' = (uaf \/ freed)
    /\ UNCHANGED <<ctx, dec, gh, out, HostVars, st, ft, nStatus, nFrames>>

catalog_invoke == CatalogInvoke(MaxCatalogs)

\* on_catalog, locked section: re-check the flag, read the generation, check
\* that a broadcast consumer is installed
catalog_locked ==
    /\ ct.pc = "lock"
    /\ uaf' = (uaf \/ freed)
    /\ IF ShuttingDown(ctx) \/ ~Valid(ctx.consume)
       THEN /\ hnd' = CloseAll(hnd, CatalogCloseIds(ct.catalog))
            /\ calls' = CloseCalls(CatalogCloseIds(ct.catalog))
            /\ ct' = ct0
       ELSE /\ ct' = [ct EXCEPT !.pc = IF Valid(ct.catalog) THEN "config" ELSE "blank",
                                !.gen = ctx.generation]
            /\ calls' = <<>>
            /\ UNCHANGED hnd
    /\ UNCHANGED <<ctx, dec, gh, out, HostVars, st, ft, nStatus, nCat, nFrames>>

\* on_catalog, catalog < 0: blank the video and return
catalog_blank ==
    /\ ct.pc = "blank"
    /\ uaf' = (uaf \/ freed)
    /\ out' = Blank
    /\ calls' = <<<<"output_video", NULL>>>>
    /\ ct' = ct0
    /\ UNCHANGED <<ctx, hnd, dec, gh, HostVars, st, ft, nStatus, nCat, nFrames>>

\* an on_catalog whose failed configuration step destroys the installed
\* decoder
CatalogConfig_reset(cfgs) ==
    /\ ct.pc = "config"
    /\ \E cfg \in cfgs :
          IF cfg.read_ok /\ InitDecoderOk(cfg)
          THEN /\ ctx' = moq_source_init_decoder(ctx, cfg, ct.catalog)
               /\ dec' = FALSE
               /\ gh' = [FreeDecoder(gh, ctx) EXCEPT
                             !.codec = @ + 1,
                             !.cfg = VideoConfig(cfg),
                             !.keep = gh.cfg = VideoConfig(cfg) /\ ctx.got_keyframe]
               /\ calls' = <<<<"video_config", ct.catalog>>,
                             <<"avcodec_open", ct.catalog>>>>
               /\ ct' = [ct EXCEPT !.pc = "track"]
               /\ uaf' = (uaf \/ freed)
               /\ UNCHANGED hnd
          ELSE /\ hnd' = Close(hnd, ct.catalog)
               /\ calls' = <<<<"video_config", ct.catalog>>>>
                           \o CloseCalls(<<ct.catalog>>)
               /\ ct' = ct0
               /\ ctx' = moq_source_destroy_decoder_locked(ctx)
               /\ dec' = FALSE
               /\ gh' = FreeDecoder(gh, ctx)
               /\ UNCHANGED uaf
    /\ UNCHANGED <<out, HostVars, st, ft, nStatus, nCat, nFrames>>

\* on_catalog: moq_consume_video_config, then moq_source_init_decoder, which
\* builds the codec context outside the lock and swaps it in under the lock
CatalogConfig(cfgs) ==
    /\ ct.pc = "config"
    /\ \E cfg \in cfgs :
          IF cfg.read_ok /\ InitDecoderOk(cfg)
          THEN /\ ctx' = moq_source_init_decoder(ctx, cfg, ct.catalog)
               /\ dec' = FALSE
               /\ gh' = [FreeDecoder(gh, ctx) EXCEPT
                             !.codec = @ + 1,
                             !.cfg = VideoConfig(cfg),
                             !.keep = gh.cfg = VideoConfig(cfg) /\ ctx.got_keyframe]
               /\ calls' = <<<<"video_config", ct.catalog>>,
                             <<"avcodec_open", ct.catalog>>>>
               /\ ct' = [ct EXCEPT !.pc = "track"]
               /\ uaf' = (uaf \/ freed)
               /\ UNCHANGED hnd
          ELSE /\ hnd' = Close(hnd, ct.catalog)
               /\ calls' = <<<<"video_config", ct.catalog>>>>
                           \o CloseCalls(<<ct.catalog>>)
               /\ ct' = ct0
               /\ UNCHANGED <<ctx, dec, gh, uaf>>
    /\ UNCHANGED <<out, HostVars, st, ft, nStatus, nCat, nFrames>>

catalog_config == CatalogConfig(Configs)

\* on_catalog: moq_consume_video_ordered(catalog, 0, 0, on_video_frame, ctx),
\* outside the lock
catalog_track ==
    /\ ct.pc = "track"
    /\ \/ /\ hnd' = Alloc(hnd, "track", GenOf(hnd, ct.catalog), ct.catalog, "")
          /\ calls' = <<<<"consume_video", ct.catalog>>>>
          /\ ct' = [ct EXCEPT !.pc = "install", !.track = Len(hnd) + 1]
       \/ /\ hnd' = Close(hnd, ct.catalog)
          /\ calls' = <<<<"consume_video", ct.catalog>>>> \o CloseCalls(<<ct.catalog>>)
          /\ ct' = ct0
    /\ UNCHANGED <<ctx, dec, gh, out, HostVars, uaf, st, ft, nStatus, nCat, nFrames>>

\* on_catalog, last locked section: install track and catalog if the
\* generation is the one read at the start, else close both
catalog_install ==
    /\ ct.pc = "install"
    /\ uaf' = (uaf \/ freed)
    /\ IF GenerationCurrent(ctx, ct.gen)
       THEN /\ ctx' = [ctx EXCEPT !.video_track = ct.track,
                                  !.catalog_handle = ct.catalog]
            /\ calls' = <<>>
            /\ UNCHANGED hnd
       ELSE /\ hnd' = CloseAll(hnd, <<ct.track, ct.catalog>>)
            /\ calls' = CloseCalls(<<ct.track, ct.catalog>>)
            /\ UNCHANGED ctx
    /\ ct' = ct0
    /\ UNCHANGED <<dec, gh, out, HostVars, st, ft, nStatus, nCat, nFrames>>

\* --------------------------------------------------------- decode pipeline
\* One frame unit as moq_source_decode_frame meets it: whether the chunk can
\* be read, its keyframe flag, whether av_packet_alloc and av_frame_alloc
\* succeed (av: "ok", "no_packet", "no_frame"), what avcodec_send_packet and
\* avcodec_receive_frame answer, the decoded picture, and whether
\* sws_getContext and bmalloc succeed.
Unit(chunk_ok, keyframe, av, send, recv, w, h, fmt, sws_ok, alloc_ok) ==
    [chunk_ok |-> chunk_ok, keyframe |-> keyframe, av |-> av, send |-> send,
     recv |-> recv, width |-> w, height |-> h, format |-> fmt,
     sws_ok |-> sws_ok, alloc_ok |-> alloc_ok]

\* a unit that decodes to a w x h picture of pixel format fmt
Decoded(keyframe, w, h, fmt) ==
    Unit(TRUE, keyframe, "ok", "ok", "frame", w, h, fmt, TRUE, TRUE)

\* a unit the decoder answers with send / recv and no picture
Undecoded(keyframe, send, recv) ==
    Unit(TRUE, keyframe, "ok", send, recv, 0, 0, AV_PIX_FMT_NONE, TRUE, TRUE)

\* a unit for which av_packet_alloc ("no_packet") or av_frame_alloc
\* ("no_frame") returns null
Unallocated(keyframe, av) ==
    Unit(TRUE, keyframe, av, "ok", "none", 0, 0, AV_PIX_FMT_NONE, TRUE, TRUE)

\* the units of the connection life cycle's frames
LifeUnits ==
    {Decoded(k, 1280, 720, 0) : k \in BOOLEAN}
    \cup {Undecoded(TRUE, "ok", "error")}

\* the units of the decode pipeline's frames: pictures of two sizes and two
\* pixel formats, pictures the validation rejects, scaler and buffer
\* failures, decoder errors and EAGAIN, packet and frame allocation
\* failures, and an unreadable chunk
DecodeUnits ==
    UNION {{Decoded(k, 1280, 720, 0), Decoded(k, 640, 360, 0),
            Decoded(k, 1280, 720, 1), Decoded(k, 0, 720, 0),
            Decoded(k, 1280, MaxDimension + 1, 0),
            Decoded(k, 1280, 720, AV_PIX_FMT_NONE),
            Unit(TRUE, k, "ok", "ok", "frame", 1280, 720, 0, FALSE, TRUE),
            Unit(TRUE, k, "ok", "ok", "frame", 1280, 720, 0, TRUE, FALSE),
            Undecoded(k, "error", "none"), Undecoded(k, "ok", "error"),
            Undecoded(k, "eagain", "none"), Undecoded(k, "ok", "eagain"),
            Unallocated(k, "no_packet"), Unallocated(k, "no_frame"),
            Unit(FALSE, k, "ok", "none", "none", 0, 0, AV_PIX_FMT_NONE, TRUE, TRUE)}
           : k \in BOOLEAN}

\* a decode failure other than EAGAIN: count it; at the threshold flush the
\* decoder and wait for the next keyframe
DecodeError(c) ==
    LET n == c.consecutive_decode_errors + 1
    IN  IF n >= ErrorThreshold
        THEN [c EXCEPT !.got_keyframe = FALSE, !.consecutive_decode_errors = 0]
        ELSE [c EXCEPT !.consecutive_decode_errors = n]

DecodeErrorFlushes(c) == c.consecutive_decode_errors + 1 >= ErrorThreshold

\* a pipeline that never waits for a keyframe
WaitingForKeyframe_never(c, u) == FALSE

\* the unit is dropped while waiting for a keyframe
WaitingForKeyframe(c, u) == ~c.got_keyframe /\ ~u.keyframe

\* a validation that accepts every size
DimensionsInvalid_never(u) == FALSE

\* a pipeline that rebuilds the conversion context for every picture
NeedReinit_always(c, u) == TRUE

NeedReinit(c, u) ==
    \/ c.sws_ctx = <<>>
    \/ c.frame_buffer = NULL
    \/ u.width # c.frame_width \/ u.height # c.frame_height
    \/ u.format # c.current_pix_fmt

DimensionsInvalid(u) ==
    u.width <= 0 \/ u.height <= 0 \/ u.width > MaxDimension \/ u.height > MaxDimension

Bit(b) == IF b THEN 1 ELSE 0

\* calls holds a call named name
Called(cs, name) == \E i \in 1..Len(cs) : cs[i][1] = name

\* avcodec_send_packet or avcodec_receive_frame answers unit u with an error
\* other than EAGAIN
UnitFails(u) ==
    /\ u.chunk_ok /\ u.av # "no_packet"
    /\ u.send = "error" \/ (u.send = "ok" /\ u.av = "ok" /\ u.recv = "error")

\* avcodec_receive_frame returns a picture for unit u
UnitDecodes(u) ==
    u.chunk_ok /\ u.av = "ok" /\ u.send = "ok" /\ u.recv = "frame"

\* The history after unit u went through moq_source_decode_frame in
\* pipeline c with the collaborator calls cl: a unit passed to avcodec_send_packet and failed
\* adds one to errs, a decoded picture resets it.
\* A rebuild (sws_getContext called) frees the old context, allocates a
\* new one unless sws_getContext fails, frees it again if bmalloc fails, and
\* otherwise allocates the new buffer and frees the old one.  A flush after
\* the submission (the error threshold) ends keep.
History(g, c, u, cl) ==
    LET flushed == \E i, j \in 1..Len(cl) :
                       i < j /\ cl[i][1] = "send_packet" /\ cl[j][1] = "flush"
        g0 == IF flushed THEN [g EXCEPT !.keep = FALSE] ELSE g
        g1 == IF ~Called(cl, "send_packet") THEN g0
              ELSE IF UnitFails(u) THEN [g0 EXCEPT !.errs = @ + 1]
              ELSE IF UnitDecodes(u) THEN [g0 EXCEPT !.errs = 0]
              ELSE g0
        old_sws == IF c.sws_ctx # <<>> THEN 1 ELSE 0
        old_buf == IF c.frame_buffer # NULL THEN 1 ELSE 0
    IN  IF ~Called(cl, "sws_getContext") THEN g1
        ELSE IF ~u.sws_ok THEN [g1 EXCEPT !.sws = @ - old_sws]
        ELSE IF ~u.alloc_ok THEN [g1 EXCEPT !.sws = @ - old_sws + 1 - 1]
        ELSE [g1 EXCEPT !.sws = @ - old_sws + 1, !.buf = @ + 1 - old_buf]

Result(c, d, image, cl) == [ctx |-> c, dec |-> d, image |-> image, calls |-> cl]

\* moq_source_decode_frame past its shutdown and decoder checks, under the
\* lock: the pipeline after unit u, whether a keyframe unit has then been
\* read since the decoder was opened or flushed on errors, the image handed
\* to the renderer (NoOutput: none), and the collaborator calls made.  track
\* names the track the frame came from.
DecodeFrame(c, d, u, track) ==
    IF ~u.chunk_ok THEN Result(c, d, NoOutput, <<<<"frame_chunk", INVALID>>>>)
    ELSE IF WaitingForKeyframe(c, u)
    THEN Result([c EXCEPT !.frames_waiting_for_keyframe = @ + 1], d, NoOutput,
                <<<<"frame_chunk", Bit(u.keyframe)>>>>)
    ELSE
    LET flush1 == u.keyframe /\ ~c.got_keyframe
        c1 == IF u.keyframe
              THEN [c EXCEPT !.got_keyframe = TRUE,
                             !.frames_waiting_for_keyframe = 0,
                             !.consecutive_decode_errors = 0]
              ELSE c
        d1 == d \/ u.keyframe
        cl0 == <<<<"frame_chunk", Bit(u.keyframe)>>>>
               \o (IF flush1 THEN <<<<"flush", c.codec_ctx>>>> ELSE <<>>)
               \o <<<<"packet_alloc", Bit(u.av # "no_packet")>>>>
        cl1 == cl0 \o <<<<"send_packet", Bit(u.keyframe)>>>>
        flushErr == <<<<"flush", c.codec_ctx>>>>
    IN
    IF u.av = "no_packet" THEN Result(c1, d1, NoOutput, cl0)
    ELSE IF u.send = "eagain" THEN Result(c1, d1, NoOutput, cl1)
    ELSE IF u.send = "error"
    THEN Result(DecodeError(c1), d1 /\ ~DecodeErrorFlushes(c1), NoOutput,
                cl1 \o (IF DecodeErrorFlushes(c1) THEN flushErr ELSE <<>>))
    ELSE
    IF u.av = "no_frame" THEN Result(c1, d1, NoOutput, cl1)
    ELSE
    LET cl2 == cl1 \o <<<<"receive_frame", c.codec_ctx>>>>
    IN
    IF u.recv = "eagain" THEN Result(c1, d1, NoOutput, cl2)
    ELSE IF u.recv = "error"
    THEN Result(DecodeError(c1), d1 /\ ~DecodeErrorFlushes(c1), NoOutput,
                cl2 \o (IF DecodeErrorFlushes(c1) THEN flushErr ELSE <<>>))
    ELSE
    LET c2 == [c1 EXCEPT !.consecutive_decode_errors = 0]
        size == u.width * u.height * BytesPerPixel
        c3 == [c2 EXCEPT !.sws_ctx = <<u.width, u.height, u.format>>,
                         !.current_pix_fmt = u.format,
                         !.frame_buffer = size,
                         !.frame_width = u.width,
                         !.frame_height = u.height,
                         !.frame_linesize = u.width * BytesPerPixel]
        image(cc) == [kind |-> "image", track |-> track, width |-> cc.frame_width,
                      height |-> cc.frame_height, size |-> cc.frame_buffer]
        deliver == <<<<"sws_scale", c.codec_ctx>>, <<"output_video", 1>>>>
    IN
    IF ~NeedReinit(c2, u) THEN Result(c2, d1, image(c2), cl2 \o deliver)
    ELSE IF DimensionsInvalid(u)
    THEN Result(c2, d1, NoOutput, cl2 \o <<<<"log_error", 1>>>>)
    ELSE IF u.format = AV_PIX_FMT_NONE
    THEN Result(c2, d1, NoOutput, cl2 \o <<<<"log_error", 2>>>>)
    ELSE IF ~u.sws_ok \/ ~u.alloc_ok
    THEN Result([c2 EXCEPT !.sws_ctx = <<>>], d1, NoOutput,
                cl2 \o <<<<"sws_getContext", u.format>>>>)
    ELSE Result(c3, d1, image(c3), cl2 \o <<<<"sws_getContext", u.format>>>> \o deliver)

\* ------------------------------------------------------ on_video_frame thread
ft0 == [pc |-> "idle", track |-> INVALID]

\* a callback that releases its frame handle twice
FrameClose_twice == <<<<"frame_close", 1>>, <<"frame_close", 1>>>>

\* moq_consume_frame_close(frame_id)
FrameClose == <<<<"frame_close", 1>>>>

\* The transport invokes on_video_frame(ctx, frame_id) for a track it still
\* holds open; frame_id is negative on an error, and then the callback only
\* logs.  Otherwise the callback reads the flag (fast path).
FrameInvoke(max) ==
    /\ ft.pc = "idle"
    /\ nFrames < max
    /\ nFrames' = nFrames + 1
    /\ \E t \in 1..Len(hnd) :
          /\ hnd[t].kind = "track"
          /\ IsOpen(hnd, t)
          /\ \/ /\ ft' = ft0
                /\ calls' = <<>>
                /\ UNCHANGED uaf
             \/ /\ uaf' = (uaf \/ freed)
                /\ IF ShuttingDown(ctx)
                   THEN ft' = ft0 /\ calls' = FrameClose
                   ELSE ft' = [ft0 EXCEPT !.pc = "lock", !.track = t] /\ calls' = <<>>
    /\ UNCHANGED <<ctx, hnd, dec, gh, out, HostVars, st, ct, nStatus, nCat>>

frame_invoke == FrameInvoke(MaxFrames)

\* on_video_frame, locked section: re-check the flag, check that a broadcast
\* consumer is installed
frame_locked ==
    /\ ft.pc = "lock"
    /\ uaf' = (uaf \/ freed)
    /\ IF ShuttingDown(ctx) \/ ~Valid(ctx.consume)
       THEN ft' = ft0 /\ calls' = FrameClose
       ELSE ft' = [ft EXCEPT !.pc = "decode"] /\ calls' = <<>>
    /\ UNCHANGED <<ctx, hnd, dec, gh, out, HostVars, st, ct, nStatus, nCat, nFrames>>

\* moq_source_decode_frame: flag (fast path and under the lock), decoder
\* present, then the unit is decoded and the frame handle closed
DecodeFrameStep(units) ==
    /\ ft.pc = "decode"
    /\ uaf' = (uaf \/ freed)
    /\ ft' = ft0
    /\ IF ShuttingDown(ctx) \/ ctx.codec_ctx = NULL
       THEN /\ calls' = FrameClose
            /\ UNCHANGED <<ctx, dec, gh, out>>
       ELSE \E u \in units :
              LET r == DecodeFrame(ctx, dec, u, ft.track)
              IN  /\ ctx' = r.ctx
                  /\ dec' = r.dec
                  /\ gh' = History(gh, ctx, u, r.calls)
                  /\ out' = IF r.image = NoOutput THEN out ELSE r.image
                  /\ calls' = r.calls \o FrameClose
    /\ UNCHANGED <<hnd, HostVars, st, ct, nStatus, nCat, nFrames>>

moq_source_decode_frame == DecodeFrameStep(LifeUnits)

\* ------------------------------------------------------------ specification
Init ==
    /\ ctx = ctx0
    /\ hnd = <<>>
    /\ host = [h \in Hosts |-> IF h = 1 THEN [host0 EXCEPT !.pc = "create"] ELSE host0]
    /\ st = st0
    /\ ct = ct0
    /\ ft = ft0
    /\ dec = FALSE
    /\ gh = gh0
    /\ out = NoOutput
    /\ calls = <<>>
    /\ created = FALSE
    /\ freed = FALSE
    /\ uaf = FALSE
    /\ nStatus = 0
    /\ nCat = 0
    /\ nFrames = 0

\* the host calls of one host thread, and every callback
Next ==
    \/ \E h \in {1} :
          \/ moq_source_create(h)
          \/ moq_source_update(h)
          \/ update_disconnect(h)
          \/ update_blank(h)
          \/ reconnect_begin(h)
          \/ reconnect_blank(h)
          \/ reconnect_open(h)
          \/ reconnect_install(h)
          \/ moq_source_destroy(h)
          \/ destroy_free(h)
    \/ session_status_invoke
    \/ session_status_locked
    \/ session_blank
    \/ start_consume_check
    \/ start_consume_call
    \/ start_consume_install
    \/ start_consume_catalog
    \/ catalog_invoke
    \/ catalog_locked
    \/ catalog_blank
    \/ catalog_config
    \/ catalog_track
    \/ catalog_install
    \/ frame_invoke
    \/ frame_locked
    \/ moq_source_decode_frame

Spec == Init /\ [][Next]_vars

\* ------------------------------------------- two host threads, one session
\* update called from two host threads, and the session status callback
NextTwo ==
    \/ \E h \in Hosts :
          \/ moq_source_create(h)
          \/ moq_source_update(h)
          \/ update_disconnect(h)
          \/ update_blank(h)
          \/ reconnect_begin(h)
          \/ reconnect_blank(h)
          \/ reconnect_open(h)
          \/ reconnect_install(h)
    \/ session_status_invoke
    \/ session_status_locked
    \/ session_blank
    \/ start_consume_check
    \/ start_consume_call
    \/ start_consume_install
    \/ start_consume_catalog

SpecTwo == Init /\ [][NextTwo]_vars

\* ----------------------------------------- the decode pipeline of one connection
\* The source after create with settings A/x, a successful connect and
\* moq_source_start_consume: origin, session and consumer installed, the
\* catalog subscription open, no decoder yet.
InitDecode ==
    /\ ctx = [ctx0 EXCEPT !.url = "A", !.broadcast = "x", !.generation = 1,
                          !.origin = 1, !.session = 2, !.consume = 3]
    /\ hnd = <<[NewHandle("origin", 1, INVALID, "") EXCEPT !.status = "pending"],
               [NewHandle("session", 1, 1, "A") EXCEPT !.status = "connected"],
               NewHandle("consume", 1, 1, "x"),
               NewHandle("catalog_sub", 1, 3, "")>>
    /\ host = [h \in Hosts |-> IF h = 1 THEN [host0 EXCEPT !.pc = "created"] ELSE host0]
    /\ st = st0
    /\ ct = ct0
    /\ ft = ft0
    /\ dec = FALSE
    /\ gh = gh0
    /\ out = Blank
    /\ calls = <<<<"consume_catalog", 3>>>>
    /\ created = TRUE
    /\ freed = FALSE
    /\ uaf = FALSE
    /\ nStatus = 1
    /\ nCat = 0
    /\ nFrames = 0

decode_catalog_invoke == CatalogInvoke(MaxConfigs)
decode_frame_invoke == FrameInvoke(MaxUnits)
decode_units == DecodeFrameStep(DecodeUnits)

\* catalog deliveries and frame units of that connection
NextDecode ==
    \/ decode_catalog_invoke
    \/ catalog_locked
    \/ catalog_blank
    \/ catalog_config
    \/ catalog_track
    \/ catalog_install
    \/ decode_frame_invoke
    \/ frame_locked
    \/ decode_units

SpecDecode == InitDecode /\ [][NextDecode]_vars

\* ------------------------------- reconfiguration across disconnect and reconnect
\* The connected source of InitDecode with update called by one host thread
\* (disconnect on invalid settings, reconnect on changed valid ones), the
\* session status callback of the new connection, and catalog deliveries and
\* frame units before, during and after.
ReconfUnits == {Decoded(TRUE, 1280, 720, 0), Decoded(TRUE, 640, 360, 0)}

reconf_catalog_invoke == CatalogInvoke(ReconfCatalogs)
reconf_frame_invoke == FrameInvoke(ReconfFrames)
reconf_units == DecodeFrameStep(ReconfUnits)

NextReconf ==
    \/ \E h \in {1} :
          \/ moq_source_update(h)
          \/ update_disconnect(h)
          \/ update_blank(h)
          \/ reconnect_begin(h)
          \/ reconnect_blank(h)
          \/ reconnect_open(h)
          \/ reconnect_install(h)
    \/ session_status_invoke
    \/ session_status_locked
    \/ session_blank
    \/ start_consume_check
    \/ start_consume_call
    \/ start_consume_install
    \/ start_consume_catalog
    \/ reconf_catalog_invoke
    \/ catalog_locked
    \/ catalog_blank
    \/ catalog_config
    \/ catalog_track
    \/ catalog_install
    \/ reconf_frame_invoke
    \/ frame_locked
    \/ reconf_units

SpecReconf == InitDecode /\ [][NextReconf]_vars

\* ------------------------------------------------------------- hang source
\* The second source of the plugin (struct hang_source): update, activate,
\* deactivate and destroy on a host thread, the session status, catalog,
\* video frame and audio frame callbacks on transport threads.  The struct
\* is in ctx, the decoders it has allocated in dec (video or audio, alive or
\* destroyed and by whom), the handles in hnd.  Only the decoders are
\* guarded by a mutex (decoder_mutex); every other access is a step of its
\* own thread that interleaves freely with the others.
hang0 ==
    [url |-> NullStr, broadcast_path |-> NullStr,
     origin_id |-> 0, session_id |-> 0, broadcast_id |-> 0,
     catalog_consumer_id |-> 0, video_track_id |-> 0, audio_track_id |-> 0,
     nvdec_context |-> NULL, audio_decoder_context |-> NULL,
     decoder_mutex |-> "free", active |-> FALSE]

\* settings the host hands to hang_source_update (url, broadcast)
HangSettings == {<<"A", "x">>, <<"B", "x">>, <<"", "x">>}

\* "id > 0": the test hang_source applies to every handle
HangValid(id) == id > 0

hang_host0 == [pc |-> "idle", after |-> "idle", url |-> NullStr, bc |-> NullStr]

\* one callback thread per frame kind: video ("v") and audio ("a"); seen is
\* the decoder installed when the callback passed its first active check
fr0 == [pc |-> "idle", seen |-> NULL]

\* acts: activations that allocated decoders; ops: host calls made after
\* create; used: who had destroyed a decoder that a callback then decoded with
hgh0 == [acts |-> 0, ops |-> 0, used |-> {}]

HangSettingsValid(c) ==
    c.url # NullStr /\ c.broadcast_path # NullStr /\ c.url # "" /\ c.broadcast_path # ""

\* the six handle fields in the order hang_source_deactivate closes them
HangHandles(c) ==
    <<c.audio_track_id, c.video_track_id, c.catalog_consumer_id,
      c.broadcast_id, c.session_id, c.origin_id>>

HangCloseIds(c) == SelectSeq(HangHandles(c), HangValid)

HangZero(c) ==
    [c EXCEPT !.audio_track_id = 0, !.video_track_id = 0,
              !.catalog_consumer_id = 0, !.broadcast_id = 0,
              !.session_id = 0, !.origin_id = 0]

\* nvdec_decoder_destroy and audio_decoder_destroy: the pointers are nulled
DestroyPointers(c) == [c EXCEPT !.nvdec_context = NULL, !.audio_decoder_context = NULL]

\* ... and the decoders they point to are freed
DestroyDecoders(d, c, who) ==
    [i \in 1..Len(d) |->
        IF i \in {c.nvdec_context, c.audio_decoder_context} /\ d[i].alive
        THEN [d[i] EXCEPT !.alive = FALSE, !.by = who]
        ELSE d[i]]

\* hang_source_deactivate returns at once
Inactive(c) == ~c.active

HangRest == <<out, created, uaf, nStatus, nCat, nFrames>>

\* hang_source_create (the struct is zeroed, then update is called) and
\* hang_source_update: compare the settings; return if unchanged
hang_source_update(h) ==
    /\ ~freed
    /\ \/ host[h].pc = "create"
       \/ host[h].pc = "idle" /\ gh.ops < HangOps
    /\ \E s \in HangSettings :
          LET changed == \/ ctx.url = NullStr \/ ctx.url # s[1]
                         \/ ctx.broadcast_path = NullStr \/ ctx.broadcast_path # s[2]
          IN  host' = [host EXCEPT ![h] =
                          IF changed
                          THEN [pc |-> "deact", after |-> "store",
                                url |-> s[1], bc |-> s[2]]
                          ELSE hang_host0]
    /\ gh' = [gh EXCEPT !.ops = IF host[h].pc = "create" THEN @ ELSE @ + 1]
    /\ created' = TRUE
    /\ calls' = GetSettings
    /\ UNCHANGED <<ctx, hnd, dec, st, ct, ft, freed, out, uaf, nStatus, nCat, nFrames>>

\* the host calls hang_source_deactivate (the source is hidden)
hang_obs_deactivate(h) ==
    /\ ~freed /\ host[h].pc = "idle" /\ gh.ops < HangOps
    /\ host' = [host EXCEPT ![h] = [hang_host0 EXCEPT !.pc = "deact"]]
    /\ gh' = [gh EXCEPT !.ops = @ + 1]
    /\ calls' = <<>>
    /\ UNCHANGED <<ctx, hnd, dec, st, ct, ft, freed, HangRest>>

\* the host calls hang_source_activate (the source is shown)
hang_obs_activate(h) ==
    /\ ~freed /\ host[h].pc = "idle" /\ gh.ops < HangOps
    /\ host' = [host EXCEPT ![h] = [hang_host0 EXCEPT !.pc = "activate"]]
    /\ gh' = [gh EXCEPT !.ops = @ + 1]
    /\ calls' = <<>>
    /\ UNCHANGED <<ctx, hnd, dec, st, ct, ft, freed, HangRest>>

\* the host calls hang_source_destroy, which begins with deactivate
hang_source_destroy(h) ==
    /\ ~freed /\ host[h].pc = "idle"
    /\ host' = [host EXCEPT ![h] = [hang_host0 EXCEPT !.pc = "deact", !.after = "destroy"]]
    /\ calls' = <<>>
    /\ UNCHANGED <<ctx, hnd, dec, gh, st, ct, ft, freed, HangRest>>

\* hang_source_deactivate: return if not active, else clear active first
hang_deactivate_begin(h) ==
    /\ host[h].pc = "deact"
    /\ IF Inactive(ctx)
       THEN /\ host' = [host EXCEPT ![h].pc = host[h].after]
            /\ UNCHANGED ctx
       ELSE /\ ctx' = [ctx EXCEPT !.active = FALSE]
            /\ host' = [host EXCEPT ![h].pc = "deact_close"]
    /\ calls' = <<>>
    /\ UNCHANGED <<hnd, dec, gh, st, ct, ft, freed, HangRest>>

\* hang_source_deactivate: close tracks, catalog consumer, broadcast
\* consumer, session and origin, each if its id is > 0
hang_deactivate_close(h) ==
    /\ host[h].pc = "deact_close"
    /\ hnd' = CloseAll(hnd, HangCloseIds(ctx))
    /\ calls' = CloseCalls(HangCloseIds(ctx))
    /\ ctx' = HangZero(ctx)
    /\ host' = [host EXCEPT ![h].pc = "deact_dec"]
    /\ UNCHANGED <<dec, gh, st, ct, ft, freed, HangRest>>

\* hang_source_deactivate: destroy both decoders under decoder_mutex
hang_deactivate_decoders(h) ==
    /\ host[h].pc = "deact_dec"
    /\ ctx.decoder_mutex = "free"
    /\ dec' = DestroyDecoders(dec, ctx, "deactivate")
    /\ ctx' = DestroyPointers(ctx)
    /\ host' = [host EXCEPT ![h].pc = host[h].after]
    /\ calls' = <<<<"decoder_destroy", ctx.nvdec_context>>,
                  <<"decoder_destroy", ctx.audio_decoder_context>>>>
    /\ UNCHANGED <<hnd, gh, st, ct, ft, freed, HangRest>>

\* hang_source_update after the deactivate: store the settings, activate if
\* they are valid
hang_store(h) ==
    /\ host[h].pc = "store"
    /\ LET c1 == [ctx EXCEPT !.url = host[h].url, !.broadcast_path = host[h].bc]
       IN  /\ ctx' = c1
           /\ host' = [host EXCEPT ![h].pc =
                           IF HangSettingsValid(c1) THEN "activate" ELSE "idle"]
    /\ calls' = <<>>
    /\ UNCHANGED <<hnd, dec, gh, st, ct, ft, freed, HangRest>>

\* hang_source_activate: guard, then nvdec_decoder_init and
\* audio_decoder_init, which overwrite the two pointers
hang_source_activate(h) ==
    /\ host[h].pc = "activate"
    /\ IF ctx.active \/ ~HangSettingsValid(ctx)
       THEN /\ host' = [host EXCEPT ![h].pc = "idle"]
            /\ calls' = <<>>
            /\ UNCHANGED <<ctx, dec, gh>>
       ELSE \/ \* nvdec_decoder_init fails
               /\ ctx' = [ctx EXCEPT !.nvdec_context = NULL]
               /\ host' = [host EXCEPT ![h].pc = "idle"]
               /\ calls' = <<<<"decoder_init", NULL>>>>
               /\ UNCHANGED <<dec, gh>>
            \/ /\ dec' = dec \o <<[kind |-> "v", alive |-> TRUE, by |-> ""],
                                  [kind |-> "a", alive |-> TRUE, by |-> ""]>>
               /\ ctx' = [ctx EXCEPT !.nvdec_context = Len(dec) + 1,
                                     !.audio_decoder_context = Len(dec) + 2]
               /\ gh' = [gh EXCEPT !.acts = @ + 1]
               /\ host' = [host EXCEPT ![h].pc = "act_origin"]
               /\ calls' = <<<<"decoder_init", Len(dec) + 1>>,
                             <<"decoder_init", Len(dec) + 2>>>>
    /\ UNCHANGED <<hnd, st, ct, ft, freed, HangRest>>

\* the cleanup label of hang_source_activate: close session and origin if
\* > 0, destroy the decoders (decoder_mutex is not taken)
HangCleanup(h, c, table) ==
    LET ids == SelectSeq(<<c.session_id, c.origin_id>>, HangValid)
    IN  /\ hnd' = CloseAll(table, ids)
        /\ ctx' = DestroyPointers([c EXCEPT
                      !.session_id = IF HangValid(@) THEN 0 ELSE @,
                      !.origin_id = IF HangValid(@) THEN 0 ELSE @])
        /\ dec' = DestroyDecoders(dec, c, "activate")
        /\ host' = [host EXCEPT ![h].pc = "idle"]

\* hang_source_activate: moq_origin_create
hang_activate_origin(h) ==
    /\ host[h].pc = "act_origin"
    /\ \/ /\ HangCleanup(h, [ctx EXCEPT !.origin_id = INVALID], hnd)
          /\ calls' = <<<<"origin_create", INVALID>>>>
                      \o CloseCalls(SelectSeq(<<ctx.session_id>>, HangValid))
       \/ /\ hnd' = Alloc(hnd, "origin", gh.acts, INVALID, "")
          /\ ctx' = [ctx EXCEPT !.origin_id = Len(hnd) + 1]
          /\ host' = [host EXCEPT ![h].pc = "act_session"]
          /\ calls' = <<<<"origin_create", Len(hnd) + 1>>>>
          /\ UNCHANGED dec
    /\ UNCHANGED <<gh, st, ct, ft, freed, HangRest>>

\* hang_source_activate: moq_session_connect, then active = true
hang_activate_session(h) ==
    /\ host[h].pc = "act_session"
    /\ \/ /\ HangCleanup(h, [ctx EXCEPT !.session_id = INVALID], hnd)
          /\ calls' = <<<<"session_connect", INVALID>>>>
                      \o CloseCalls(SelectSeq(<<ctx.origin_id>>, HangValid))
       \/ /\ hnd' = Alloc(hnd, "session", gh.acts, ctx.origin_id, ctx.url)
          /\ ctx' = [ctx EXCEPT !.session_id = Len(hnd) + 1, !.active = TRUE]
          /\ host' = [host EXCEPT ![h].pc = "idle"]
          /\ calls' = <<<<"session_connect", Len(hnd) + 1>>>>
          /\ UNCHANGED dec
    /\ UNCHANGED <<gh, st, ct, ft, freed, HangRest>>

\* hang_source_destroy after its deactivate: close what is still > 0,
\* destroy the decoders under decoder_mutex, free the struct
hang_destroy_rest(h) ==
    /\ host[h].pc = "destroy"
    /\ ctx.decoder_mutex = "free"
    /\ hnd' = CloseAll(hnd, HangCloseIds(ctx))
    /\ calls' = CloseCalls(HangCloseIds(ctx))
    /\ dec' = DestroyDecoders(dec, ctx, "destroy")
    /\ ctx' = DestroyPointers(HangZero(ctx))
    /\ freed' = TRUE
    /\ host' = [host EXCEPT ![h].pc = "gone"]
    /\ UNCHANGED <<gh, st, ct, ft, HangRest>>

\* on_session_status(context, code): on an error clear active; on success
\* moq_origin_consume, which fails on an origin that is not open
hang_session_status ==
    /\ ~freed /\ st.pc = "idle" /\ nStatus < HangStatus
    /\ nStatus' = nStatus + 1
    /\ \E s \in 1..Len(hnd) :
          /\ hnd[s].kind = "session" /\ IsOpen(hnd, s)
          /\ hnd[s].status \in {"pending", "connected"}
          /\ \E code \in (IF hnd[s].status = "pending" THEN {0, -1} ELSE {-1}) :
                LET h1 == [hnd EXCEPT ![s].status =
                               IF code = 0 THEN "connected" ELSE "failed"]
                IN  IF code # 0
                    THEN /\ ctx' = [ctx EXCEPT !.active = FALSE]
                         /\ hnd' = h1
                         /\ calls' = <<>>
                         /\ st' = st0
                    ELSE IF IsOpen(hnd, ctx.origin_id)
                    THEN /\ hnd' = Alloc(h1, "consume", GenOf(hnd, ctx.origin_id),
                                         ctx.origin_id, ctx.broadcast_path)
                         /\ ctx' = [ctx EXCEPT !.broadcast_id = Len(hnd) + 1]
                         /\ calls' = <<<<"origin_consume", ctx.origin_id>>>>
                         /\ st' = [st0 EXCEPT !.pc = "catalog_sub"]
                    ELSE /\ hnd' = h1
                         /\ ctx' = [ctx EXCEPT !.broadcast_id = INVALID, !.active = FALSE]
                         /\ calls' = <<<<"origin_consume", ctx.origin_id>>>>
                         /\ st' = st0
    /\ UNCHANGED <<host, dec, gh, ct, ft, freed, out, created, uaf, nCat, nFrames>>

\* on_session_status: moq_consume_catalog; on failure close the broadcast
\* consumer and clear active
hang_catalog_subscribe ==
    /\ ~freed /\ st.pc = "catalog_sub"
    /\ \/ /\ IsOpen(hnd, ctx.broadcast_id)
          /\ hnd' = Alloc(hnd, "catalog_sub", GenOf(hnd, ctx.broadcast_id),
                          ctx.broadcast_id, "")
          /\ ctx' = [ctx EXCEPT !.catalog_consumer_id = Len(hnd) + 1]
          /\ calls' = <<<<"consume_catalog", ctx.broadcast_id>>>>
       \/ /\ hnd' = Close(hnd, ctx.broadcast_id)
          /\ ctx' = [ctx EXCEPT !.catalog_consumer_id = INVALID,
                                !.broadcast_id = 0, !.active = FALSE]
          /\ calls' = <<<<"consume_catalog", ctx.broadcast_id>>,
                        <<"close", ctx.broadcast_id>>>>
    /\ st' = st0
    /\ UNCHANGED <<host, dec, gh, ct, ft, freed, HangRest>>

\* on_catalog(context, catalog_id), invoked for an open catalog consumer:
\* return if not active or on an error
hang_on_catalog ==
    /\ ~freed /\ ct.pc = "idle" /\ nCat < HangCatalogs
    /\ nCat' = nCat + 1
    /\ \E s \in 1..Len(hnd) : hnd[s].kind = "catalog_sub" /\ IsOpen(hnd, s)
    /\ \E ok \in BOOLEAN :
          ct' = IF ctx.active /\ ok THEN [ct0 EXCEPT !.pc = "tracks"] ELSE ct0
    /\ calls' = <<>>
    /\ UNCHANGED <<ctx, hnd, host, dec, gh, st, ft, freed, out, created, uaf,
                   nStatus, nFrames>>

\* moq_consume_video_track / moq_consume_audio_track on the broadcast
\* consumer: a new track, or a failure (always on a consumer not open)
HangSubscribe(kind, field) ==
    \/ /\ IsOpen(hnd, ctx.broadcast_id)
       /\ hnd' = Alloc(hnd, kind, GenOf(hnd, ctx.broadcast_id), ctx.broadcast_id, "")
       /\ ctx' = [ctx EXCEPT ![field] = Len(hnd) + 1]
    \/ /\ ctx' = [ctx EXCEPT ![field] = INVALID]
       /\ UNCHANGED hnd

\* on_catalog: close the existing tracks
hang_catalog_close ==
    /\ ~freed /\ ct.pc = "tracks"
    /\ LET ids == SelectSeq(<<ctx.video_track_id, ctx.audio_track_id>>, HangValid)
       IN  /\ hnd' = CloseAll(hnd, ids)
           /\ calls' = CloseCalls(ids)
    /\ ctx' = [ctx EXCEPT !.video_track_id = IF HangValid(@) THEN 0 ELSE @,
                          !.audio_track_id = IF HangValid(@) THEN 0 ELSE @]
    /\ ct' = [ct EXCEPT !.pc = "video"]
    /\ UNCHANGED <<host, dec, gh, st, ft, freed, HangRest>>

\* on_catalog: subscribe the first video track
hang_catalog_video ==
    /\ ~freed /\ ct.pc = "video"
    /\ HangSubscribe("track", "video_track_id")
    /\ calls' = <<<<"consume_video", ctx.broadcast_id>>>>
    /\ ct' = [ct EXCEPT !.pc = "audio"]
    /\ UNCHANGED <<host, dec, gh, st, ft, freed, HangRest>>

\* on_catalog: subscribe the first audio track
hang_catalog_audio ==
    /\ ~freed /\ ct.pc = "audio"
    /\ HangSubscribe("audio_track", "audio_track_id")
    /\ calls' = <<<<"consume_audio", ctx.broadcast_id>>>>
    /\ ct' = ct0
    /\ UNCHANGED <<host, dec, gh, st, ft, freed, HangRest>>

TrackKind(k) == IF k = "v" THEN "track" ELSE "audio_track"
DecoderOf(c, k) == IF k = "v" THEN c.nvdec_context ELSE c.audio_decoder_context

\* on_video_frame / on_audio_frame(context, frame_id), invoked for an open
\* track: the first active check, the frame_id check, the chunk read
hang_frame_invoke(k) ==
    /\ ~freed /\ ft[k].pc = "idle" /\ nFrames < HangFrames
    /\ nFrames' = nFrames + 1
    /\ \E t \in 1..Len(hnd) : hnd[t].kind = TrackKind(k) /\ IsOpen(hnd, t)
    /\ \E frame_ok \in BOOLEAN, chunk_ok \in BOOLEAN :
          IF ~ctx.active
          THEN /\ calls' = IF frame_ok THEN FrameClose ELSE <<>>
               /\ UNCHANGED ft
          ELSE IF ~frame_ok
          THEN calls' = <<>> /\ UNCHANGED ft
          ELSE IF ~chunk_ok
          THEN calls' = <<<<"frame_chunk", INVALID>>>> \o FrameClose /\ UNCHANGED ft
          ELSE /\ calls' = <<<<"frame_chunk", 1>>>>
               /\ ft' = [ft EXCEPT ![k] = [pc |-> "wait", seen |-> DecoderOf(ctx, k)]]
    /\ UNCHANGED <<ctx, hnd, host, dec, gh, st, ct, freed, out, created, uaf,
                   nStatus, nCat>>

\* the callback takes decoder_mutex and re-checks active and the decoder
\* pointer: close the frame and return, or go on to decode
hang_frame_lock(k) ==
    /\ ~freed /\ ft[k].pc = "wait"
    /\ ctx.decoder_mutex = "free"
    /\ IF ~ctx.active \/ DecoderOf(ctx, k) = NULL
       THEN /\ ft' = [ft EXCEPT ![k] = fr0]
            /\ calls' = FrameClose
            /\ UNCHANGED ctx
       ELSE /\ ft' = [ft EXCEPT ![k].pc = "decode"]
            /\ ctx' = [ctx EXCEPT !.decoder_mutex = k]
            /\ calls' = <<>>
    /\ UNCHANGED <<hnd, host, dec, gh, st, ct, freed, HangRest>>

\* nvdec_decoder_decode / audio_decoder_decode read the pointer and decode;
\* then the mutex is released and the frame closed
hang_frame_decode(k) ==
    /\ ft[k].pc = "decode"
    /\ LET d == DecoderOf(ctx, k)
       IN  /\ gh' = IF d # NULL /\ ~dec[d].alive
                    THEN [gh EXCEPT !.used = @ \cup {dec[d].by}] ELSE gh
           /\ calls' = <<<<"decode", d>>>> \o FrameClose
    /\ ctx' = [ctx EXCEPT !.decoder_mutex = "free"]
    /\ ft' = [ft EXCEPT ![k] = fr0]
    /\ UNCHANGED <<hnd, host, dec, st, ct, freed, HangRest>>

\* a callback still running when hang_source_destroy has freed the struct
\* reads freed memory: it returns, or (a frame callback) decodes with
\* whatever pointer it finds there
hang_use_after_free ==
    /\ freed
    /\ \/ /\ st.pc # "idle" /\ st' = st0 /\ UNCHANGED <<ct, ft, gh>>
          /\ calls' = <<>>
       \/ /\ ct.pc # "idle" /\ ct' = ct0 /\ UNCHANGED <<st, ft, gh>>
          /\ calls' = <<>>
       \/ \E k \in {"v", "a"} :
             /\ ft[k].pc # "idle"
             /\ ft' = [ft EXCEPT ![k] = fr0]
             /\ UNCHANGED <<st, ct>>
             /\ \/ calls' = FrameClose /\ UNCHANGED gh
                \/ \E d \in 1..Len(dec) :
                      /\ dec[d].kind = k /\ ~dec[d].alive
                      /\ gh' = [gh EXCEPT !.used = @ \cup {dec[d].by}]
                      /\ calls' = <<<<"decode", d>>>> \o FrameClose
    /\ uaf' = TRUE
    /\ UNCHANGED <<ctx, hnd, host, dec, freed, out, created, nStatus, nCat, nFrames>>

InitHang ==
    /\ ctx = hang0
    /\ hnd = <<>>
    /\ host = [h \in Hosts |-> IF h = 1 THEN [hang_host0 EXCEPT !.pc = "create"]
                               ELSE hang_host0]
    /\ st = st0
    /\ ct = ct0
    /\ ft = [k \in {"v", "a"} |-> fr0]
    /\ dec = <<>>
    /\ gh = hgh0
    /\ out = Blank
    /\ calls = <<>>
    /\ created = FALSE
    /\ freed = FALSE
    /\ uaf = FALSE
    /\ nStatus = 0
    /\ nCat = 0
    /\ nFrames = 0

NextHang ==
    \/ \E h \in {1} :
          \/ hang_source_update(h)
          \/ hang_obs_deactivate(h)
          \/ hang_obs_activate(h)
          \/ hang_source_destroy(h)
          \/ hang_deactivate_begin(h)
          \/ hang_deactivate_close(h)
          \/ hang_deactivate_decoders(h)
          \/ hang_store(h)
          \/ hang_source_activate(h)
          \/ hang_activate_origin(h)
          \/ hang_activate_session(h)
          \/ hang_destroy_rest(h)
    \/ hang_session_status
    \/ hang_catalog_subscribe
    \/ hang_on_catalog
    \/ hang_catalog_close
    \/ hang_catalog_video
    \/ hang_catalog_audio
    \/ \E k \in {"v", "a"} :
          \/ hang_frame_invoke(k)
          \/ hang_frame_lock(k)
          \/ hang_frame_decode(k)
    \/ hang_use_after_free

SpecHang == InitHang /\ [][NextHang]_vars

\* ------------------------------------------------------------------ mutex
\* The step of host thread h runs a pthread_mutex_lock .. unlock section:
\* update's compare-and-store, update's disconnect, destroy's disconnect,
\* reconnect's first and last sections, and the section that clears the
\* guard when moq_origin_create or moq_session_connect failed
HostLocks(h) ==
    \/ host[h].pc \in {"create", "idle", "created", "disconnect", "reconnect",
                        "rc_install"}
    \/ host[h].pc = "rc_open" /\ host'[h].pc # "rc_install"

\* the step of on_session_status runs a locked section: its own, the two
\* of moq_source_start_consume, and the cleanup after a failed
\* moq_consume_catalog
StatusLocks ==
    \/ st.pc \in {"lock", "sc_check", "sc_install"}
    \/ st.pc = "sc_catalog" /\ st'.pc = "blank"

\* the step of on_catalog runs a locked section: its check, the swap inside
\* moq_source_init_decoder, and the installation
CatalogLocks ==
    \/ ct.pc \in {"lock", "install"}
    \/ ct.pc = "config" /\ ct'.pc = "track"

\* the step of on_video_frame runs a locked section: its check and
\* moq_source_decode_frame
FrameLocks == ft.pc \in {"lock", "decode"}

\* ------------------------------------------------------------------ claims
AllInvalid(c) == \A i \in 1..5 : ~Valid(Registry(c)[i])

\* the frame thread takes a step
FrameStep == ft.pc \in {"lock", "decode"} /\ ft' # ft

\* the frame being handled comes from a track whose reconnect attempt
\* (generation) is older than the current one
StaleFrame == ft.pc \in {"lock", "decode"} /\ GenOf(hnd, ft.track) < ctx.generation

\* C1: a frame of a track subscribed under an older generation changes no
\* decode-pipeline field and no registry handle, delivers nothing to the
\* renderer, and its frame handle is closed
C1_StaleFrameDiscarded ==
    [][(FrameStep /\ StaleFrame) =>
          /\ Pipeline(ctx') = Pipeline(ctx)
          /\ Registry(ctx') = Registry(ctx)
          /\ ~Called(calls', "output_video")
          /\ ft'.pc = "idle" => Called(calls', "frame_close")]_vars

\* C2: a valid handle implies valid parents, in every state (every state of
\* the model is one in which the mutex is free); stated for the states
\* before destroy, where update, reconnect and the callbacks interleave
C2_HandleOrdering ==
    ~ctx.shutting_down =>
       /\ Valid(ctx.video_track) => Valid(ctx.catalog_handle)
       /\ Valid(ctx.catalog_handle) => Valid(ctx.consume)
       /\ Valid(ctx.consume) => Valid(ctx.session)
       /\ Valid(ctx.session) => Valid(ctx.origin)

\* C3: once destroy has set shutting_down and disconnected, all five
\* handles stay invalid and the codec context stays null
C3_ShutdownAbsorbing ==
    (ctx.shutting_down /\ ~freed) => (AllInvalid(ctx) /\ ctx.codec_ctx = NULL)

\* C4: no callback touches the struct or its mutex after destroy freed it
C4_NoUseAfterFree == ~uaf

\* the source is at rest: create has returned, no host call is running and
\* no session status callback is being handled
Quiescent ==
    /\ created /\ ~ctx.shutting_down
    /\ \A h \in Hosts : HostIdle(h)
    /\ st.pc = "idle"

\* C5: once every update and callback has completed, and the latest update
\* gave valid settings, the installed session is the one connected to the url
\* of that update, the installed consumer is for its broadcast, and no
\* session to another url is open
C5_LatestSettingsInstalled ==
    (Quiescent /\ SettingsValid(ctx)) =>
       /\ Valid(ctx.session) => hnd[ctx.session].tag = ctx.url
       /\ Valid(ctx.consume) => hnd[ctx.consume].tag = ctx.broadcast
       /\ \A i \in 1..Len(hnd) :
             (hnd[i].kind = "session" /\ IsOpen(hnd, i)) => hnd[i].tag = ctx.url

\* C6, read to the letter: the generation is 0 when moq_source_create has
\* returned
C6_ZeroAfterCreate == host[1].pc = "created" => ctx.generation = 0

\* a step that passes the guard of moq_source_reconnect
PassesGuard(h) ==
    host[h].pc = "reconnect" /\ host'[h].pc = "rc_blank" /\ ~ctx.reconnect_in_progress

\* C6: the generation is 0 when create has initialised the struct, and when
\* create returns it is 1 if the stored settings are valid (create connects
\* through moq_source_update) and 0 if not; it never decreases; a reconnect
\* that passes the guard raises it by exactly 1, before the origin and the
\* session of that attempt are opened; nothing else changes it
C6_Generation ==
    /\ ctx.generation = 0
    /\ [][/\ (\E h \in Hosts : PassesGuard(h)) =>
                ctx'.generation = ctx.generation + 1
          /\ ~(\E h \in Hosts : PassesGuard(h)) =>
                ctx'.generation = ctx.generation
          /\ \A h \in Hosts : host'[h].pc = "created" =>
                ctx'.generation = IF SettingsValid(ctx') THEN 1 ELSE 0
          /\ \A h \in Hosts : Called(calls', "origin_create") /\ host[h].pc = "rc_open" =>
                host[h].new_gen >= 1 /\ host[h].new_gen <= ctx.generation]_vars

\* the second reconnect attempt has raised the generation to 2 and then
\* opened its origin and session
C6_Witness ==
    /\ ctx.generation = 2
    /\ Called(calls, "origin_create")
    /\ host[1].pc = "rc_install"

\* C7: a valid handle is written into the registry only by the installing
\* step of an attempt whose captured generation is the current one
C7_InstallUnderCurrentGeneration ==
    [][/\ (Valid(ctx'.origin) /\ ctx'.origin # ctx.origin) =>
             \E h \in Hosts : /\ host[h].pc = "rc_install"
                              /\ host[h].new_gen = ctx.generation
                              /\ ctx'.origin = host[h].new_origin
       /\ (Valid(ctx'.session) /\ ctx'.session # ctx.session) =>
             \E h \in Hosts : /\ host[h].pc = "rc_install"
                              /\ host[h].new_gen = ctx.generation
                              /\ ctx'.session = host[h].new_session
       /\ (Valid(ctx'.consume) /\ ctx'.consume # ctx.consume) =>
             st.pc = "sc_install" /\ st.gen = ctx.generation
       /\ (Valid(ctx'.video_track) /\ ctx'.video_track # ctx.video_track) =>
             ct.pc = "install" /\ ct.gen = ctx.generation
       /\ (Valid(ctx'.catalog_handle) /\ ctx'.catalog_handle # ctx.catalog_handle) =>
             ct.pc = "install" /\ ct.gen = ctx.generation
       /\ ctx'.generation = ctx.generation \/ AllInvalid(ctx')]_vars

\* the second attempt has installed all five handles
C7_Witness ==
    /\ ctx.generation = 2
    /\ Valid(ctx.origin) /\ Valid(ctx.session) /\ Valid(ctx.consume)
    /\ Valid(ctx.catalog_handle) /\ Valid(ctx.video_track)

\* the status callback being handled belongs to a connect request of a
\* generation older than the current one
StaleStatus == st.pc = "lock" /\ GenOf(hnd, st.sess) < ctx.generation

\* C8: a session status callback of a superseded connect request is
\* discarded: it starts no consume and closes or replaces no handle
C8_StaleStatusDiscarded ==
    [][StaleStatus /\ st' # st =>
          st'.pc = "idle" /\ Registry(ctx') = Registry(ctx) /\ hnd' = hnd]_vars

\* C9: when a reconnect happened between on_catalog's validity check and
\* its installation step, the delivery changes neither the decode pipeline
\* nor the registry
C9_StaleCatalogDiscarded ==
    [][(ct.pc \in {"config", "track", "install"} /\ ct' # ct
        /\ ct.gen # ctx.generation) =>
          Pipeline(ctx') = Pipeline(ctx) /\ Registry(ctx') = Registry(ctx)]_vars

\* the decode step of moq_source_decode_frame
DecodeStep == ft.pc = "decode" /\ ft' # ft

\* the unit read by the step is flagged keyframe / is not
UnitKey == \E i \in 1..Len(calls') : calls'[i] = <<"frame_chunk", 1>>
UnitNonKey == \E i \in 1..Len(calls') : calls'[i] = <<"frame_chunk", 0>>

\* C10: dec says that a unit flagged keyframe has been seen since the
\* decoder was configured or forcibly resynchronised.  No unit is sent to the
\* decoder and no image reaches the renderer unless a keyframe has been seen
\* (this unit included); a non-keyframe unit before that is dropped and
\* counted, changing nothing else; for the keyframe and every unit after it
\* decoding is attempted: a packet is allocated for it and, unless that
\* allocation fails, sent to the decoder.
C10_KeyframeGating ==
    [][DecodeStep =>
          /\ (Called(calls', "send_packet") \/ Called(calls', "output_video")
                  \/ out' # out) => (dec \/ UnitKey)
          /\ (UnitNonKey /\ ~dec) =>
                /\ ctx'.frames_waiting_for_keyframe =
                      ctx.frames_waiting_for_keyframe + 1
                /\ [ctx' EXCEPT !.frames_waiting_for_keyframe = 0] =
                      [ctx EXCEPT !.frames_waiting_for_keyframe = 0]
                /\ calls' = <<<<"frame_chunk", 0>>>> \o FrameClose
          /\ (UnitKey \/ (UnitNonKey /\ dec)) =>
                /\ Called(calls', "packet_alloc")
                /\ Called(calls', "send_packet")
                      \/ (\E i \in 1..Len(calls') : calls'[i] = <<"packet_alloc", 0>>)]_vars

\* an image was delivered, then the decoder was forcibly resynchronised (the
\* only catalog delivery configured it once) and a unit dropped and counted
C10_Witness ==
    /\ nCat = 1 /\ ctx.codec_ctx # NULL
    /\ out.kind = "image"
    /\ ~ctx.got_keyframe /\ ~dec
    /\ ctx.frames_waiting_for_keyframe >= 1

\* C11: when a unit, keyframe or not, is the fifth in a row that the decoder
\* fails with an error other than EAGAIN, no picture decoded between them,
\* the step flushes the decoder after the failed submission and leaves
\* got_keyframe false, so that the pipeline waits for the next keyframe
C11_FlushAtFifthFailure ==
    [][(DecodeStep /\ gh.errs = ErrorThreshold - 1 /\ gh'.errs = ErrorThreshold) =>
          /\ \E i, j \in 1..Len(calls') :
                i < j /\ calls'[i][1] = "send_packet" /\ calls'[j][1] = "flush"
          /\ ~ctx'.got_keyframe
          /\ ~dec']_vars

\* the step is moq_source_decode_frame handling unit u
Handles(u) ==
    /\ DecodeStep
    /\ ~ShuttingDown(ctx) /\ ctx.codec_ctx # NULL
    /\ ctx' = DecodeFrame(ctx, dec, u, ft.track).ctx
    /\ calls' = DecodeFrame(ctx, dec, u, ft.track).calls \o FrameClose

\* bytes of an RGBA picture
RGBA(w, h) == w * h * BytesPerPixel

\* C12: whenever frame_buffer is non-null its size is frame.width *
\* frame.height * 4 and frame.linesize[0] is frame.width * 4; at every
\* sws_scale and every delivery to the renderer the buffer and the conversion
\* context have the size of the decoded frame being converted, and the
\* renderer is handed that width, height and buffer
C12_BufferSize ==
    /\ [](ctx.frame_buffer # NULL =>
             /\ ctx.frame_buffer = RGBA(ctx.frame_width, ctx.frame_height)
             /\ ctx.frame_linesize = ctx.frame_width * BytesPerPixel)
    /\ [][\A u \in DecodeUnits :
             (/\ DecodeStep
              /\ Called(calls', "sws_scale") \/ Called(calls', "output_video")
              /\ Handles(u)) =>
                /\ UnitDecodes(u)
                /\ ctx'.frame_buffer = RGBA(u.width, u.height)
                /\ ctx'.frame_width = u.width /\ ctx'.frame_height = u.height
                /\ ctx'.frame_linesize = u.width * BytesPerPixel
                /\ ctx'.sws_ctx = <<u.width, u.height, u.format>>
                /\ out' = [kind |-> "image", track |-> ft.track, width |-> u.width,
                           height |-> u.height, size |-> RGBA(u.width, u.height)]]_vars

\* the catalog gave coded dimensions 1280x720 for H.264 and the decoder
\* produced 640x360 pictures: the buffer in use has the decoded size
C12_Witness ==
    /\ ctx.current_codec_id = "H264"
    /\ ctx.frame_buffer = RGBA(640, 360)
    /\ out.kind = "image" /\ out.size = ctx.frame_buffer

\* C13: for a unit that decodes to a picture of width w, height h and pixel
\* format f: if a conversion context built for (w, h, f) and an output
\* buffer exist, the step builds no context, keeps both and converts with
\* them; a context is built, or the context or buffer replaced, only if no
\* context or no buffer exists or w, h or f differs from the stored
\* frame.width, frame.height, current_pix_fmt
C13_RebuildOnChange ==
    [][\A u \in DecodeUnits :
          (DecodeStep /\ Called(calls', "receive_frame") /\ UnitDecodes(u)
           /\ Handles(u)) =>
             /\ (ctx.sws_ctx = <<u.width, u.height, u.format>>
                 /\ ctx.frame_buffer # NULL) =>
                   /\ ~Called(calls', "sws_getContext")
                   /\ ctx'.sws_ctx = ctx.sws_ctx
                   /\ ctx'.frame_buffer = ctx.frame_buffer
                   /\ Called(calls', "sws_scale")
             /\ (\/ Called(calls', "sws_getContext")
                 \/ ctx'.sws_ctx # ctx.sws_ctx
                 \/ ctx'.frame_buffer # ctx.frame_buffer) =>
                   \/ ctx.sws_ctx = <<>>
                   \/ ctx.frame_buffer = NULL
                   \/ u.width # ctx.frame_width
                   \/ u.height # ctx.frame_height
                   \/ u.format # ctx.current_pix_fmt]_vars

\* the catalog gave 1280x720, the first 1280x720 picture built the context
\* and the buffer, and the latest step converted another one without
\* building anything
C13_Witness ==
    /\ ctx.current_codec_id = "H264"
    /\ ctx.sws_ctx = <<1280, 720, 0>>
    /\ ctx.frame_buffer = RGBA(1280, 720)
    /\ Called(calls, "sws_scale") /\ ~Called(calls, "sws_getContext")

\* C14: at most one codec context, one conversion context and one output
\* buffer are allocated and not freed, each is the one the struct points to,
\* and no free is applied to an object that is not live (every replaced one
\* was freed once)
C14_NoDecoderLeak ==
    /\ gh.codec = (IF ctx.codec_ctx # NULL THEN 1 ELSE 0)
    /\ gh.sws = (IF ctx.sws_ctx # <<>> THEN 1 ELSE 0)
    /\ gh.buf = (IF ctx.frame_buffer # NULL THEN 1 ELSE 0)

\* a catalog delivery of the first connection configured a decoder (its
\* track was subscribed), the source reconnected, and a delivery of the
\* second connection configured the decoder now installed, which has
\* decoded a picture into a new context and buffer
C14_Witness ==
    /\ \E t \in 1..Len(hnd) : hnd[t].kind = "track" /\ GenOf(hnd, t) = 1
    /\ ctx.generation = 2
    /\ ctx.codec_ctx # NULL /\ GenOf(hnd, ctx.codec_ctx) = 2
    /\ ctx.sws_ctx # <<>> /\ ctx.frame_buffer # NULL

\* C15: once the installed video configuration has been delivered again
\* while the pipeline had accepted a keyframe, every unit read afterwards,
\* non-keyframes included, is submitted to the decoder: a packet is
\* allocated for it and, unless that allocation fails, sent
C15_ReconfigurationKeepsFrames ==
    [][(DecodeStep /\ gh.keep /\ (UnitKey \/ UnitNonKey)) =>
          \/ Called(calls', "send_packet")
          \/ \E i \in 1..Len(calls') : calls'[i] = <<"packet_alloc", 0>>]_vars

\* C16: a moq_source_update call that is given the stored server address
\* and broadcast name changes neither the generation, nor the guard, nor a
\* registry handle or any handle of the transport, nor the decode pipeline,
\* emits no frame, makes no transport call and returns without entering
\* reconnect or disconnect
C16_UpdateIdempotent ==
    [][\A h \in Hosts :
          (moq_source_update(h) /\ ctx'.url = ctx.url
           /\ ctx'.broadcast = ctx.broadcast) =>
             /\ ctx' = ctx
             /\ hnd' = hnd
             /\ out' = out /\ calls' = GetSettings
             /\ dec' = dec /\ gh' = gh
             /\ HostIdle(h)']_vars

\* an update with the stored settings has just returned on a source that is
\* connected and decoding
C16_Witness ==
    /\ calls = GetSettings /\ HostIdle(1)
    /\ Valid(ctx.session) /\ hnd[ctx.session].status = "connected"
    /\ Valid(ctx.video_track) /\ ctx.codec_ctx # NULL /\ ctx.got_keyframe

\* C17: once an update that stored an empty server address or broadcast
\* name has returned, and until a later update, all five handles are invalid
\* and the decoder is destroyed, whatever the callbacks in flight do
C17_EmptySettingsDisconnect ==
    (created /\ ~ctx.shutting_down /\ ~SettingsValid(ctx)
     /\ \A h \in Hosts : HostIdle(h)) =>
        AllInvalid(ctx) /\ ctx.codec_ctx = NULL

\* host thread h is in moq_source_reconnect between its generation bump and
\* its handle installation
Attempting(h) == host[h].pc \in {"rc_blank", "rc_open", "rc_install"}

\* C18: a moq_source_reconnect call that finds reconnect_in_progress set
\* returns without changing the struct (generation, guard, registry,
\* pipeline) or any handle and without emitting a frame; and at most one
\* host thread is between the generation bump and the handle installation
C18_ReconnectGuard ==
    /\ [](Cardinality({h \in Hosts : Attempting(h)}) <= 1)
    /\ []((\E h \in Hosts : Attempting(h)) => ctx.reconnect_in_progress)
    /\ [][\A h \in Hosts :
             (host[h].pc = "reconnect" /\ host'[h] # host[h]
              /\ ctx.reconnect_in_progress) =>
                /\ ctx' = ctx /\ hnd' = hnd
                /\ out' = out /\ calls' = <<>>
                /\ HostIdle(h)']_vars

\* thread 1 is about to install the session it connected to its url copy
\* while thread 2, whose update stored another valid url, has returned from
\* its reconnect call at the guard
C18_Witness ==
    /\ host[1].pc = "rc_install" /\ HostIdle(2)
    /\ SettingsValid(ctx) /\ ctx.url # host[1].url_copy
    /\ ctx.reconnect_in_progress /\ ctx.generation = host[1].new_gen

\* the place of a handle in the close order: track, catalog, broadcast
\* consumer, session, origin
Rank(kind) ==
    CASE kind = "track" -> 1
      [] kind = "catalog" -> 2
      [] kind = "consume" -> 3
      [] kind = "session" -> 4
      [] kind = "origin" -> 5
      [] OTHER -> 0

\* the handles closed by the step, in the order of the close calls
Closed == SelectSeq(calls', LAMBDA c : c[1] = "close")

\* C19: in every step that closes handles, a handle is closed before the
\* handles above it (track, catalog, broadcast consumer, session, origin),
\* and when the step is done no handle of the same connection that is below
\* a closed one is still valid in the registry
C19_CloseOrder ==
    [][/\ \A i, j \in 1..Len(Closed) :
             i < j => Rank(hnd[Closed[i][2]].kind) < Rank(hnd[Closed[j][2]].kind)
       /\ \A i \in 1..Len(Closed) : \A k \in 1..5 :
             (/\ Valid(Registry(ctx')[k])
              /\ GenOf(hnd, Registry(ctx')[k]) = GenOf(hnd, Closed[i][2])) =>
                k >= Rank(hnd[Closed[i][2]].kind)]_vars

\* C20: every moq_origin_consume, moq_consume_catalog and
\* moq_consume_video_ordered call is made on a handle that is open at the
\* moment of the call; stated for the calls made before destroy, where
\* update, reconnect and the session status callback interleave
C20_OpenUnderLiveParent ==
    [][\A i \in 1..Len(calls') :
          (/\ ~ctx.shutting_down
           /\ calls'[i][1] \in {"origin_consume", "consume_catalog", "consume_video"}) =>
             IsOpen(hnd, calls'[i][2])]_vars

\* the step is the error branch of on_session_status
StatusErrorStep == st.pc = "lock" /\ st'.pc = "blank"

\* the step is moq_source_reconnect returning because moq_origin_create or
\* moq_session_connect failed
ConnectFailedStep ==
    \E i \in 1..Len(calls') :
       calls'[i] \in {<<"origin_create", INVALID>>, <<"session_connect", INVALID>>}

\* C21: after a failed moq_origin_create or moq_session_connect, and after
\* the error branch of on_session_status, all five registry handles are
\* invalid and no handle of the failed connection is left open
C21_FailureLeavesNothingOpen ==
    [][/\ ConnectFailedStep =>
             /\ AllInvalid(ctx')
             /\ \A i \in 1..Len(hnd') : i > Len(hnd) => ~IsOpen(hnd', i)
       /\ StatusErrorStep =>
             /\ AllInvalid(ctx')
             /\ \A i \in 1..Len(hnd') :
                   (hnd'[i].kind \in {"origin", "session", "consume", "catalog", "track"}
                    /\ GenOf(hnd', i) = GenOf(hnd, st.sess)) => ~IsOpen(hnd', i)]_vars

\* C22: when on_session_status returns from its error branch, the failed
\* session being the one of the current generation and the stored settings
\* valid, a reconnect has been started: the generation has been raised or
\* the in-progress guard is set
C22_SessionFailureReconnects ==
    [][(/\ st.pc = "blank" /\ st.code # 0 /\ st'.pc = "idle"
        /\ ~ctx.shutting_down /\ SettingsValid(ctx)
        /\ GenOf(hnd, st.sess) = ctx.generation) =>
          \/ ctx'.generation > ctx.generation
          \/ ctx'.reconnect_in_progress]_vars

\* the step is the locked cleanup after a failed moq_origin_consume or
\* moq_consume_catalog
ConsumeFailedStep == st.pc \in {"sc_install", "sc_catalog"} /\ st'.pc = "blank"

\* the step is on_catalog returning for a catalog < 0
CatalogErrorStep == ct.pc = "blank" /\ ct'.pc = "idle"

\* the step is on_catalog returning because moq_consume_video_ordered failed
TrackFailedStep ==
    ct.pc = "track" /\ ct'.pc = "idle" /\ Called(calls', "consume_video")

\* C23: when moq_origin_consume or moq_consume_catalog fails, when on_catalog
\* is given an error, or when moq_consume_video_ordered fails, the generation
\* being current, the step leaves all five registry handles invalid, and the
\* path ends with a blank frame
C23_SubscriptionFailureTearsDown ==
    [][/\ (ConsumeFailedStep /\ st.gen = ctx.generation) => AllInvalid(ctx')
       /\ (CatalogErrorStep /\ ct.gen = ctx.generation) =>
             AllInvalid(ctx') /\ out' = Blank
       /\ (TrackFailedStep /\ ct.gen = ctx.generation) =>
             AllInvalid(ctx') /\ out' = Blank]_vars

\* the step is on_catalog returning because moq_consume_video_config or
\* moq_source_init_decoder failed
ConfigFailedStep == ct.pc = "config" /\ ct'.pc = "idle"

\* C24: a failed configuration step leaves the struct (codec context,
\* conversion context, output buffer, got_keyframe, counters, registry)
\* as it was, closes the delivered catalog handle once, subscribes no track,
\* and leaves on_catalog ready for the next delivery
C24_ConfigFailureAbandonsDelivery ==
    [][ConfigFailedStep =>
          /\ ctx' = ctx /\ dec' = dec /\ gh' = gh /\ out' = out
          /\ calls' = <<<<"video_config", ct.catalog>>, <<"close", ct.catalog>>>>
          /\ Len(hnd') = Len(hnd)
          /\ ~IsOpen(hnd', ct.catalog) /\ hnd'[ct.catalog].closes = 1
          /\ ct' = ct0]_vars

\* a catalog delivery has just failed its configuration step while the
\* decoder opened for an earlier delivery is installed and decoding
C24_Witness ==
    /\ ct.pc = "idle" /\ Len(calls) = 2
    /\ calls[1][1] = "video_config" /\ calls[2] = <<"close", calls[1][2]>>
    /\ ctx.codec_ctx # NULL /\ ctx.codec_ctx < calls[1][2]
    /\ ctx.got_keyframe /\ ctx.frame_buffer # NULL

\* the number of moq_consume_frame_close calls in cs
FrameCloses(cs) == Cardinality({i \in 1..Len(cs) : cs[i][1] = "frame_close"})

CatalogInstalled ==
    /\ ctx'.catalog_handle = ct.catalog /\ ctx'.video_track = ct.track
    /\ IsOpen(hnd', ct.catalog) /\ IsOpen(hnd', ct.track)
    /\ hnd'[ct.track].parent = ct.catalog
    /\ ~Called(calls', "close")

\* C26: an on_catalog invocation that was handed a catalog handle returns
\* with the handle installed as catalog_handle together with its track, or
\* with the handle closed once; on the generation-changed path it closes
\* the new track and then the catalog; while it runs the handle stays open
C26_CatalogInstalledOrClosed ==
    [][/\ (ct.pc # "idle" /\ Valid(ct.catalog) /\ ct'.pc = "idle") =>
             \/ CatalogInstalled
             \/ /\ hnd'[ct.catalog].closes = 1
                /\ ctx'.catalog_handle # ct.catalog
                /\ Valid(ct.track) =>
                      /\ hnd'[ct.track].closes = 1
                      /\ calls' = <<<<"close", ct.track>>, <<"close", ct.catalog>>>>
       /\ (ct.pc = "idle" /\ Len(hnd') > Len(hnd)
           /\ hnd'[Len(hnd')].kind = "catalog") =>
             IF ct'.pc = "idle" THEN hnd'[Len(hnd')].closes = 1
             ELSE ct'.catalog = Len(hnd') /\ IsOpen(hnd', Len(hnd'))
       /\ (ct'.pc # "idle" /\ Valid(ct'.catalog)) => IsOpen(hnd', ct'.catalog)]_vars

\* on_catalog has just returned on the generation-changed path: it closed
\* the track it had subscribed and then the delivered catalog, once each
C26_Witness ==
    /\ ct.pc = "idle" /\ Len(calls) = 2
    /\ calls[1][1] = "close" /\ calls[2][1] = "close"
    /\ hnd[calls[1][2]].kind = "track" /\ hnd[calls[1][2]].closes = 1
    /\ hnd[calls[1][2]].parent = calls[2][2]
    /\ hnd[calls[2][2]].kind = "catalog" /\ hnd[calls[2][2]].closes = 1
    /\ ctx.catalog_handle # calls[2][2]
    /\ hnd[calls[2][2]].gen < ctx.generation

\* C27: when on_catalog installs a new track and catalog while the registry
\* holds an earlier, still open track and catalog of the same generation,
\* the earlier two are closed by the installing step
C27_ReplacedHandlesClosed ==
    [][(/\ ct.pc = "install" /\ ctx'.catalog_handle = ct.catalog
        /\ Valid(ctx.catalog_handle) /\ Valid(ctx.video_track)
        /\ IsOpen(hnd, ctx.catalog_handle) /\ IsOpen(hnd, ctx.video_track)
        /\ GenOf(hnd, ctx.catalog_handle) = ct.gen) =>
          /\ hnd'[ctx.video_track].closes = 1
          /\ hnd'[ctx.catalog_handle].closes = 1]_vars

\* the client is disconnected or destroyed, and no host call or callback is
\* in flight
AllReturned ==
    /\ \A h \in Hosts : host[h].pc \in {"idle", "created", "gone"}
    /\ st.pc = "idle" /\ ct.pc = "idle" /\ ft.pc = "idle"
    /\ AllInvalid(ctx)

\* C28: once the client is disconnected or destroyed and every callback has
\* returned, each handle the transport returned (origin, session, broadcast
\* consumer, catalog subscription, delivered catalog, track) has been closed
\* exactly once
C28_NoHandleLeak ==
    AllReturned => \A i \in 1..Len(hnd) : hnd[i].closes = 1

\* on_session_status reports success for the open session of the current
\* generation, with no shutdown, and takes its locked step
SuccessReported ==
    /\ st.pc = "lock" /\ st' # st /\ st.code = 0
    /\ ~ShuttingDown(ctx)
    /\ IsOpen(hnd, st.sess) /\ GenOf(hnd, st.sess) = ctx.generation

\* C29: a success callback for the connect request of the current generation
\* goes on to moq_source_start_consume, whether or not moq_source_reconnect
\* has stored the new origin and session yet (the transport reports success
\* once per session, so a callback that returns here issues nothing later)
C29_SuccessLeadsToConsume ==
    [][SuccessReported => st'.pc = "sc_check" /\ st'.gen = ctx.generation]_vars

\* a host thread is in moq_source_reconnect between its release of the old
\* handles and decoder and its blank frame
Releasing(h) == host[h].pc = "rc_blank"

\* C30: a moq_source_reconnect that passes the guard first releases the old
\* handles and the decoder, then emits the blank frame, and only then calls
\* moq_origin_create; no decoded image is delivered between the release and
\* the blank frame
C30_BlankBeforeReconnecting ==
    [][\A h \in Hosts :
          /\ (host[h].pc = "reconnect" /\ host'[h].pc = "rc_blank") =>
                AllInvalid(ctx') /\ ctx'.codec_ctx = NULL
          /\ (host[h].pc # "rc_blank" /\ host'[h].pc = "rc_blank") =>
                host[h].pc = "reconnect"
          /\ (host[h].pc = "rc_blank" /\ host'[h].pc # "rc_blank") =>
                /\ host'[h].pc = "rc_open"
                /\ out' = Blank /\ calls' = <<<<"output_video", NULL>>>>
          /\ (host[h].pc # "rc_open" /\ host'[h].pc = "rc_open") =>
                host[h].pc = "rc_blank"
          /\ (host[h].pc # "rc_open" /\ host'[h] # host[h]) =>
                ~Called(calls', "origin_create")
          /\ (Releasing(h) /\ Called(calls', "output_video")) =>
                out'.kind # "image"]_vars

\* the step hands a decoded image to the renderer
ImageDelivered == Called(calls', "output_video") /\ out'.kind = "image"

\* C31: an image is delivered only while the client is connected (a
\* broadcast consumer installed) and comes from an open track subscribed
\* under the current generation; after a disconnect or reconnect released
\* the handles no callback that was in flight delivers one
C31_NoImageWhileDisconnected ==
    [][ImageDelivered =>
          /\ Valid(ctx.consume)
          /\ IsOpen(hnd, ft.track)
          /\ GenOf(hnd, ft.track) = ctx.generation]_vars

\* C32: a step that writes a field of the struct (generation, guard, the
\* five handles, url and broadcast, the decode pipeline, shutting_down) is
\* a step in which the writing thread runs a locked section; the steps made
\* of transport calls, blank frames and sleeps write nothing
C32_WritesUnderLock ==
    [][(ctx' # ctx) =>
          /\ \A h \in Hosts : host'[h] # host[h] => HostLocks(h)
          /\ st' # st => StatusLocks
          /\ ct' # ct => CatalogLocks
          /\ ft' # ft => FrameLocks
          /\ (host' = host /\ st' = st /\ ct' = ct /\ ft' = ft) =>
                (calls' = GetSettings /\ \E h \in Hosts : HostLocks(h))]_vars

\* every kind of thread has written under the lock: the host connected,
\* on_session_status installed a consumer, on_catalog a decoder and a track,
\* and on_video_frame a conversion context and buffer
C32_Witness ==
    /\ ctx.generation >= 1 /\ Valid(ctx.consume)
    /\ Valid(ctx.video_track) /\ ctx.got_keyframe /\ ctx.frame_buffer # NULL

ActivatesAfterUpdate ==
    \E h \in Hosts : /\ host[h].pc = "activate" /\ host[h].after = "store"
                     /\ Len(dec') > Len(dec)

\* C34: when hang_source_update has changed the url or the broadcast, every
\* handle (origin, session, broadcast, catalog, video and audio track) and
\* both decoders of the previous activation are closed / destroyed before
\* hang_source_activate creates new ones, also when a session error or a
\* failed subscribe had already cleared active.
C34_PreviousConnectionStopped ==
    [][ActivatesAfterUpdate =>
          /\ \A i \in 1..Len(hnd) : ~IsOpen(hnd, i)
          /\ \A d \in 1..Len(dec) : ~dec[d].alive]_vars

\* who destroys decoders in hang_source_deactivate and hang_source_destroy
Destroyers == {"deactivate", "destroy"}

\* callback k passed its first active check and has not yet taken
\* decoder_mutex, and the decoder installed at that check has since been
\* destroyed by hang_source_deactivate or hang_source_destroy
DestroyedWhileWaiting(k) ==
    /\ ft[k].pc = "wait"
    /\ ft[k].seen # NULL
    /\ ~dec[ft[k].seen].alive
    /\ dec[ft[k].seen].by \in Destroyers

NoDecodeAfterDestroy == gh.used \cap Destroyers = {}

WaiterOnlyCloses ==
    \A k \in {"v", "a"} :
        DestroyedWhileWaiting(k) /\ ft'[k] # ft[k] => calls' = FrameClose

\* C35: on_video_frame and on_audio_frame never decode with a decoder that
\* hang_source_deactivate or hang_source_destroy has destroyed; a callback
\* that passed the first active check and waited on decoder_mutex while the
\* decoders were destroyed finds active false or a null decoder when it gets
\* the mutex and only closes its frame.
C35_NoDecodeAfterDestroy ==
    [](NoDecodeAfterDestroy) /\ [][WaiterOnlyCloses]_vars

====
